---- MODULE Spec2Model ----
(***************************************************************************)
(* DarTwin visualizer: the DSL parser (parseDarTwin and its block          *)
(* extractor), the graph builder (darTwinToReactFlow), the layout engine   *)
(* (computeLayout) and their callers.                                      *)
(*                                                                         *)
(* Strings are sequences of one-character strings; every index is the      *)
(* 0-based JavaScript index, so src[i] of the code is src[i + 1] here.     *)
(***************************************************************************)
EXTENDS Integers, Sequences, FiniteSets, TLC

VARIABLES pc, src, openIdx, block, text, model, graph, console, scanKind, lastIndex, items,
          decls, layout, stateNodes, stateEdges, layoutSignature

vars == <<pc, src, openIdx, block, text, model, graph, console, scanKind, lastIndex, items, decls, layout,
          stateNodes, stateEdges, layoutSignature>>

\* The value of a variable the running specification does not use.
Unused == "unused"

(***************************************************************************)
(* Characters and JavaScript string primitives                             *)
(***************************************************************************)
LowerLetters ==
  <<"a","b","c","d","e","f","g","h","i","j","k","l","m",
    "n","o","p","q","r","s","t","u","v","w","x","y","z">>

UpperLetters ==
  <<"A","B","C","D","E","F","G","H","I","J","K","L","M",
    "N","O","P","Q","R","S","T","U","V","W","X","Y","Z">>

Range(s) == {s[k] : k \in DOMAIN s}

\* \s of the regular expressions (the characters of it the inputs use)
Whitespace == {" ", "\n", "\t"}

\* \w
WordChars ==
  {"a","b","c","d","e","f","g","h","i","j","k","l","m",
   "n","o","p","q","r","s","t","u","v","w","x","y","z",
   "A","B","C","D","E","F","G","H","I","J","K","L","M",
   "N","O","P","Q","R","S","T","U","V","W","X","Y","Z",
   "0","1","2","3","4","5","6","7","8","9","_"}

\* [\w-]
NameChars == WordChars \cup {"-"}

\* [\w.]
RefChars == WordChars \cup {"."}

\* [\w.-]
TargetChars == WordChars \cup {".", "-"}

\* the i flag: letters compare by their lower-case form
UpperSet == Range(UpperLetters)

Lower(c) ==
  IF c \in UpperSet
    THEN LowerLetters[CHOOSE k \in DOMAIN UpperLetters : UpperLetters[k] = c]
    ELSE c

\* s.slice(from, to)
Slice(s, from, to) == SubSeq(s, from + 1, to)

\* s.slice(from)
SliceFrom(s, from) == SubSeq(s, from + 1, Len(s))

\* s.startsWith(prefix)
StartsWith(s, prefix) ==
  /\ Len(prefix) <= Len(s)
  /\ SubSeq(s, 1, Len(prefix)) = prefix

\* s.indexOf(c, from) for a single character c; -1 when absent
IndexOf(s, c, from) ==
  LET hits == {i \in from..(Len(s) - 1) : i >= 0 /\ s[i + 1] = c}
  IN IF hits = {} THEN 0 - 1 ELSE CHOOSE i \in hits : \A j \in hits : i <= j

\* s.trim(): s without its leading and trailing whitespace
Trim(s) ==
  LET solid == {k \in DOMAIN s : s[k] \notin Whitespace}
      first == CHOOSE k \in solid : \A j \in solid : k <= j
      last == CHOOSE k \in solid : \A j \in solid : j <= k
  IN IF solid = {} THEN <<>> ELSE SubSeq(s, first, last)

RECURSIVE Concat(_)
Concat(ss) == IF ss = <<>> THEN <<>> ELSE Head(ss) \o Concat(Tail(ss))

\* All sequences over S of length at most n
SeqUpTo(S, n) == UNION {[1..k -> S] : k \in 0..n}

(***************************************************************************)
(* Block extractor                                                         *)
(***************************************************************************)
\* One iteration of the for loop of extractBlock at index i.  The loop state is
\* [depth, done, end]: done once the loop has left at index end.
BlockStep(s, st, i) ==
  IF st.done THEN st
  ELSE IF s[i + 1] = "{" THEN [st EXCEPT !.depth = st.depth + 1]
  ELSE IF s[i + 1] = "}"
    THEN IF st.depth - 1 = 0
           THEN [depth |-> 0, done |-> TRUE, end |-> i]
           ELSE [st EXCEPT !.depth = st.depth - 1]
    ELSE st

\* The iterations for i = lo, ..., hi - 1 in this order (the index range is
\* halved only to keep the evaluation depth logarithmic).
RECURSIVE BlockRun(_, _, _, _)
BlockRun(s, st, lo, hi) ==
  IF st.done \/ lo >= hi THEN st
  ELSE IF hi = lo + 1 THEN BlockStep(s, st, lo)
  ELSE LET mid == (lo + hi) \div 2
       IN BlockRun(s, BlockRun(s, st, lo, mid), mid, hi)

\* The for loop of extractBlock from i = open to the end of the source.
BlockLoop(s, open) ==
  BlockRun(s, [depth |-> 0, done |-> FALSE, end |-> Len(s)], open, Len(s))

\* A block extractor that stops at the first closing brace, whatever the depth.
extractBlockFirstClose(s, open) ==
  LET i == IndexOf(s, "}", open)
  IN IF i < 0 THEN [body |-> <<>>, end |-> Len(s)]
              ELSE [body |-> Slice(s, open + 1, i), end |-> i]

\* A block extractor that reports an unclosed block by the end index -1.
extractBlockMinusOne(s, open) ==
  LET st == BlockLoop(s, open)
  IN IF st.done THEN [body |-> Slice(s, open + 1, st.end), end |-> st.end]
                ELSE [body |-> <<>>, end |-> 0 - 1]

\* extractBlock returning, for an unclosed block, the text up to the end of
\* the source instead of the empty body.
extractBlockTruncating(s, open) ==
  LET st == BlockLoop(s, open)
  IN [body |-> Slice(s, open + 1, st.end), end |-> st.end]

\* extractBlock of the model parser
extractBlock(s, open) ==
  LET st == BlockLoop(s, open)
  IN IF st.done THEN [body |-> Slice(s, open + 1, st.end), end |-> st.end]
                ELSE [body |-> <<>>, end |-> Len(s)]

\* extractBlock of the node parser (parser.ts): the loop breaks at the closing
\* brace or runs to the end, and the body is sliced up to where it stopped.
extractBlockLegacy(s, open) ==
  LET st == BlockLoop(s, open)
      i == IF st.done THEN st.end ELSE Len(s)
  IN [body |-> Slice(s, open + 1, i), end |-> i]

(***************************************************************************)
(* Regular expressions of the model parser.  Every pattern is a sequence   *)
(* of literals and greedy character classes, each class followed by a      *)
(* character outside it, so greedy matching from a start index decides the *)
(* match.  A match is [ok, index, end, ...]: index is match.index and end  *)
(* is match.index + match[0].length.                                       *)
(***************************************************************************)
KwDartwin == <<"#","d","a","r","t","w","i","n">>
KwTwinsystem == <<"#","t","w","i","n","s","y","s","t","e","m">>
KwDigitaltwin == <<"#","d","i","g","i","t","a","l","t","w","i","n">>
KwPart == <<"p","a","r","t">>
KwPort == <<"p","o","r","t">>
KwConnect == <<"c","o","n","n","e","c","t">>
KwTo == <<"t","o">>
KwName == <<"n","a","m","e">>
KwGoal == <<"#","g","o","a","l">>
KwDoc == <<"d","o","c">>
KwAllocate == <<"a","l","l","o","c","a","t","e">>
KwDartrans == <<"#","d","a","r","t","r","a","n","s">>
KwCore == <<"#","c","o","r","e">>
KwBefore == <<"#","b","e","f","o","r","e">>
KwAfter == <<"#","a","f","t","e","r">>

NoMatch == [ok |-> FALSE]

\* The literal lit at index i of s, letters compared case-insensitively.
MatchLit(s, i, lit) ==
  /\ i + Len(lit) <= Len(s)
  /\ \A k \in 1..Len(lit) : s[i + k] = lit[k] \/ Lower(s[i + k]) = lit[k]

\* The literal lit at index i of s, compared exactly.
MatchExact(s, i, lit) ==
  /\ i + Len(lit) <= Len(s)
  /\ \A k \in 1..Len(lit) : s[i + k] = lit[k]

\* Greedy class: the first index from i on whose character is not in class.
SkipWhile(s, i, class) ==
  LET stops == {j \in i..Len(s) : j = Len(s) \/ s[j + 1] \notin class}
  IN IF i >= Len(s) THEN i ELSE CHOOSE j \in stops : \A k \in stops : j <= k

\* The least of a non-empty set of indexes.
Least(S) == CHOOSE i \in S : \A j \in S : i <= j

\* regex.exec(s) of a pattern whose match at a given index is M(s, i), with
\* the search starting at index from (lastIndex, or 0 without the g flag).
Exec(M(_, _), s, from) ==
  LET hits == {i \in from..(Len(s) - 1) : M(s, i).ok}
  IN IF hits = {} THEN NoMatch ELSE M(s, Least(hits))

\* kw\s+([\w-]+)\s*\{
HeaderAt(s, i, kw) ==
  IF ~MatchLit(s, i, kw) THEN NoMatch
  ELSE LET a == i + Len(kw)
           b == SkipWhile(s, a, Whitespace)
           c == SkipWhile(s, b, NameChars)
           d == SkipWhile(s, c, Whitespace)
       IN IF b > a /\ c > b /\ d < Len(s) /\ s[d + 1] = "{"
            THEN [ok |-> TRUE, index |-> i, end |-> d + 1, name |-> Slice(s, b, c)]
            ELSE NoMatch

\* kw\s*\{
SectionAt(s, i, kw) ==
  IF ~MatchLit(s, i, kw) THEN NoMatch
  ELSE LET d == SkipWhile(s, i + Len(kw), Whitespace)
       IN IF d < Len(s) /\ s[d + 1] = "{"
            THEN [ok |-> TRUE, index |-> i, end |-> d + 1]
            ELSE NoMatch

headerRegexAt(s, i) == HeaderAt(s, i, KwDartwin)

systemRegexAt(s, i) == HeaderAt(s, i, KwTwinsystem)

dtRegexAt(s, i) == HeaderAt(s, i, KwDigitaltwin)

partRegexAt(s, i) == HeaderAt(s, i, KwPart)

transRegexAt(s, i) == SectionAt(s, i, KwDartrans)

\* port\s+([\w-]+)\s*;
portRegexAt(s, i) ==
  IF ~MatchLit(s, i, KwPort) THEN NoMatch
  ELSE LET a == i + Len(KwPort)
           b == SkipWhile(s, a, Whitespace)
           c == SkipWhile(s, b, NameChars)
           d == SkipWhile(s, c, Whitespace)
       IN IF b > a /\ c > b /\ d < Len(s) /\ s[d + 1] = ";"
            THEN [ok |-> TRUE, index |-> i, end |-> d + 1, name |-> Slice(s, b, c)]
            ELSE NoMatch

\* #goal\s+([\w-]+)\s*(\{)?
goalRegexAt(s, i) ==
  IF ~MatchLit(s, i, KwGoal) THEN NoMatch
  ELSE LET a == i + Len(KwGoal)
           b == SkipWhile(s, a, Whitespace)
           c == SkipWhile(s, b, NameChars)
           d == SkipWhile(s, c, Whitespace)
           brace == d < Len(s) /\ s[d + 1] = "{"
       IN IF b > a /\ c > b
            THEN [ok |-> TRUE, index |-> i, end |-> IF brace THEN d + 1 ELSE d,
                  name |-> Slice(s, b, c), hasBlock |-> brace]
            ELSE NoMatch

\* allocate\s+([\w-]+)\s+to\s+([\w.-]+)\s*;
allocRegexAt(s, i) ==
  IF ~MatchLit(s, i, KwAllocate) THEN NoMatch
  ELSE LET a == i + Len(KwAllocate)
           b == SkipWhile(s, a, Whitespace)
           c == SkipWhile(s, b, NameChars)
           d == SkipWhile(s, c, Whitespace)
           e == d + Len(KwTo)
           f == SkipWhile(s, e, Whitespace)
           g == SkipWhile(s, f, TargetChars)
           h == SkipWhile(s, g, Whitespace)
       IN IF /\ b > a /\ c > b /\ d > c
             /\ MatchLit(s, d, KwTo)
             /\ f > e /\ g > f
             /\ h < Len(s) /\ s[h + 1] = ";"
            THEN [ok |-> TRUE, index |-> i, end |-> h + 1,
                  goal |-> Slice(s, b, c), target |-> Slice(s, f, g)]
            ELSE NoMatch

\* The optional group (?:\s+name\s+([\w-]+))? at index g, then \s*; :
\* [ok, semi, inline] with semi the index of the ";".
connectTailAt(s, g) ==
  LET h == SkipWhile(s, g, Whitespace)
      k == h + Len(KwName)
      l == SkipWhile(s, k, Whitespace)
      m == SkipWhile(s, l, NameChars)
      n == SkipWhile(s, m, Whitespace)
      named == h > g /\ MatchLit(s, h, KwName) /\ l > k /\ m > l
  IN IF named /\ n < Len(s) /\ s[n + 1] = ";"
       THEN [ok |-> TRUE, semi |-> n, inline |-> Slice(s, l, m)]
       ELSE IF h < Len(s) /\ s[h + 1] = ";"
         THEN [ok |-> TRUE, semi |-> h, inline |-> <<>>]
         ELSE NoMatch

\* [^\n]* from index i: the index of the next "\n", or the length of s.
LineEnd(s, i) ==
  LET nl == IndexOf(s, "\n", i)
  IN IF nl < 0 THEN Len(s) ELSE nl

\* connect\s+([\w.]+)\s+to\s+([\w.]+)(?:\s+name\s+([\w-]+))?\s*;([^\n]*)
connectRegexAt(s, i) ==
  IF ~MatchLit(s, i, KwConnect) THEN NoMatch
  ELSE LET a == i + Len(KwConnect)
           b == SkipWhile(s, a, Whitespace)
           c == SkipWhile(s, b, RefChars)
           d == SkipWhile(s, c, Whitespace)
           e == d + Len(KwTo)
           f == SkipWhile(s, e, Whitespace)
           g == SkipWhile(s, f, RefChars)
           tail == connectTailAt(s, g)
       IN IF /\ b > a /\ c > b /\ d > c
             /\ MatchLit(s, d, KwTo)
             /\ f > e /\ g > f
             /\ tail.ok
            THEN [ok |-> TRUE, index |-> i, end |-> LineEnd(s, tail.semi + 1),
                  from |-> Slice(s, b, c), to |-> Slice(s, f, g),
                  inlineName |-> tail.inline,
                  trailing |-> Slice(s, tail.semi + 1, LineEnd(s, tail.semi + 1))]
            ELSE NoMatch

\* \/\/\s*name\s*:\s*([\w-]+)
commentRegexAt(s, i) ==
  IF ~MatchExact(s, i, <<"/", "/">>) THEN NoMatch
  ELSE LET a == SkipWhile(s, i + 2, Whitespace)
           b == a + Len(KwName)
           c == SkipWhile(s, b, Whitespace)
           d == SkipWhile(s, c + 1, Whitespace)
           e == SkipWhile(s, d, NameChars)
       IN IF /\ MatchLit(s, a, KwName)
             /\ c < Len(s) /\ s[c + 1] = ":"
             /\ e > d
            THEN [ok |-> TRUE, index |-> i, end |-> e, name |-> Slice(s, d, e)]
            ELSE NoMatch

\* The index of the first "*/" at or after index i, or -1.
CommentClose(s, i) ==
  LET hits == {j \in i..(Len(s) - 2) : s[j + 1] = "*" /\ s[j + 2] = "/"}
  IN IF hits = {} THEN 0 - 1 ELSE Least(hits)

\* doc\s*\/\*([\s\S]*?)\*\/
docRegexAt(s, i) ==
  IF ~MatchLit(s, i, KwDoc) THEN NoMatch
  ELSE LET a == SkipWhile(s, i + Len(KwDoc), Whitespace)
           close == CommentClose(s, a + 2)
       IN IF MatchExact(s, a, <<"/", "*">>) /\ close >= 0
            THEN [ok |-> TRUE, index |-> i, end |-> close + 2,
                  doc |-> Slice(s, a + 2, close)]
            ELSE NoMatch

(***************************************************************************)
(* The model parser (parseDarTwin).  A scanning loop is given by its       *)
(* iteration: [ok |-> FALSE] when exec finds no match, else the item the   *)
(* iteration pushes and next, the lastIndex the following exec starts at.  *)
(***************************************************************************)
sanitizeName(value) == Trim(value)

\* value.split("\n")
RECURSIVE SplitLines(_)
SplitLines(value) ==
  LET nl == IndexOf(value, "\n", 0)
  IN IF nl < 0 THEN <<value>>
     ELSE <<Slice(value, 0, nl)>> \o SplitLines(SliceFrom(value, nl + 1))

\* lines.join(" ")
RECURSIVE JoinSpace(_)
JoinSpace(lines) ==
  IF lines = <<>> THEN <<>>
  ELSE IF Len(lines) = 1 THEN lines[1]
  ELSE lines[1] \o <<" ">> \o JoinSpace(Tail(lines))

\* WHITESPACE_ONLY_LINE.test(line)
WhitespaceOnlyLine(line) == \A k \in DOMAIN line : line[k] \in Whitespace

normalizeWhitespace(value) ==
  LET trimmed == [k \in DOMAIN SplitLines(value) |-> Trim(SplitLines(value)[k])]
      kept == SelectSeq(trimmed, LAMBDA line : ~WhitespaceOnlyLine(line))
  IN Trim(JoinSpace(kept))

\* The block that follows a match: body.indexOf("{", match.index +
\* match[0].length - 1), then extractBlock from that brace.
BlockAfter(body, match) ==
  extractBlock(body, IndexOf(body, "{", match.index + (match.end - match.index) - 1))

\* The body of the loop of parsePorts for a match of portRegex.
PortsBody(match) ==
  IF ~match.ok THEN NoMatch
  ELSE [ok |-> TRUE, item |-> sanitizeName(match.name), next |-> match.end]

\* One iteration of the loop of parsePorts.
PortsIter(body, from) == PortsBody(Exec(portRegexAt, body, from))

RECURSIVE parsePortsFrom(_, _)
parsePortsFrom(body, from) ==
  LET it == PortsIter(body, from)
  IN IF ~it.ok THEN <<>> ELSE <<it.item>> \o parsePortsFrom(body, it.next)

parsePorts(body) == parsePortsFrom(body, 0)

\* A loop body that leaves lastIndex at the end of the header.
TwinItemResumingInside(match, blk) ==
  [ok |-> TRUE,
   item |-> [name |-> sanitizeName(match.name), ports |-> parsePorts(blk.body)],
   next |-> match.end]

\* What the loops of parseDigitalTwins and parseOriginalTwins push for a
\* match and its block, and the lastIndex they set.
TwinItem(match, blk) ==
  [ok |-> TRUE,
   item |-> [name |-> sanitizeName(match.name), ports |-> parsePorts(blk.body)],
   next |-> blk.end + 1]

\* The body of the loop of parseDigitalTwins and parseOriginalTwins.
TwinsBody(body, match) ==
  IF ~match.ok THEN NoMatch ELSE TwinItem(match, BlockAfter(body, match))

\* One iteration of the loop of parseDigitalTwins.
DigitalTwinsIter(body, from) == TwinsBody(body, Exec(dtRegexAt, body, from))

RECURSIVE parseDigitalTwinsFrom(_, _)
parseDigitalTwinsFrom(body, from) ==
  LET it == DigitalTwinsIter(body, from)
  IN IF ~it.ok THEN <<>> ELSE <<it.item>> \o parseDigitalTwinsFrom(body, it.next)

parseDigitalTwins(body) == parseDigitalTwinsFrom(body, 0)

\* One iteration of the loop of parseOriginalTwins.
OriginalTwinsIter(body, from) == TwinsBody(body, Exec(partRegexAt, body, from))

RECURSIVE parseOriginalTwinsFrom(_, _)
parseOriginalTwinsFrom(body, from) ==
  LET it == OriginalTwinsIter(body, from)
  IN IF ~it.ok THEN <<>> ELSE <<it.item>> \o parseOriginalTwinsFrom(body, it.next)

parseOriginalTwins(body) == parseOriginalTwinsFrom(body, 0)

\* The name a trailing text gives in a comment, for a match of the pattern.
CommentName(commentMatch) ==
  IF commentMatch.ok
    THEN [defined |-> TRUE, name |-> sanitizeName(commentMatch.name)]
    ELSE [defined |-> FALSE]

\* A name for which a comment of the trailing text wins over the inline name.
parseConnectionNameCommentFirst(inline, trailing) ==
  IF trailing # <<>> /\ Exec(commentRegexAt, trailing, 0).ok
    THEN CommentName(Exec(commentRegexAt, trailing, 0))
    ELSE IF inline # <<>> THEN [defined |-> TRUE, name |-> sanitizeName(inline)]
    ELSE [defined |-> FALSE]

\* [defined, name]: the name of a connection, when it has one.
parseConnectionName(inline, trailing) ==
  IF inline # <<>> THEN [defined |-> TRUE, name |-> sanitizeName(inline)]
  ELSE IF trailing = <<>> THEN [defined |-> FALSE]
  ELSE CommentName(Exec(commentRegexAt, trailing, 0))

\* { from, to, ...(name ? { name } : {}) }
ConnectionItem(ends, name) ==
  IF name.defined /\ name.name # <<>>
    THEN [from |-> ends.from, to |-> ends.to, name |-> name.name]
    ELSE ends

\* The body of the loop of parseConnections for a match of connectRegex.
ConnectionsBody(match) ==
  IF ~match.ok THEN NoMatch
  ELSE [ok |-> TRUE,
        item |-> ConnectionItem(
                   [from |-> sanitizeName(match.from), to |-> sanitizeName(match.to)],
                   parseConnectionName(match.inlineName, match.trailing)),
        next |-> match.end]

\* One iteration of the loop of parseConnections.
ConnectionsIter(body, from) == ConnectionsBody(Exec(connectRegexAt, body, from))

RECURSIVE parseConnectionsFrom(_, _)
parseConnectionsFrom(body, from) ==
  LET it == ConnectionsIter(body, from)
  IN IF ~it.ok THEN <<>> ELSE <<it.item>> \o parseConnectionsFrom(body, it.next)

parseConnections(body) == parseConnectionsFrom(body, 0)

\* What the loop of parseTwinSystems pushes for a match and its block, and
\* the lastIndex it sets.
TwinSystemItem(match, blk) ==
  [ok |-> TRUE,
   item |-> [name |-> sanitizeName(match.name),
             digital_twins |-> parseDigitalTwins(blk.body),
             original_twins |-> parseOriginalTwins(blk.body),
             connections |-> parseConnections(blk.body)],
   next |-> blk.end + 1]

\* The body of the loop of parseTwinSystems for a match of systemRegex.
TwinSystemsBody(body, match) ==
  IF ~match.ok THEN NoMatch ELSE TwinSystemItem(match, BlockAfter(body, match))

\* One iteration of the loop of parseTwinSystems.
TwinSystemsIter(body, from) == TwinSystemsBody(body, Exec(systemRegexAt, body, from))

RECURSIVE parseTwinSystemsFrom(_, _)
parseTwinSystemsFrom(body, from) ==
  LET it == TwinSystemsIter(body, from)
  IN IF ~it.ok THEN <<>> ELSE <<it.item>> \o parseTwinSystemsFrom(body, it.next)

parseTwinSystems(body) == parseTwinSystemsFrom(body, 0)

\* The doc of a goal for a match of the doc pattern in its block: "" when
\* there is none.
GoalDoc(docMatch) == IF docMatch.ok THEN normalizeWhitespace(docMatch.doc) ELSE <<>>

\* { name, ...(doc ? { doc } : {}) }
GoalItem(name, doc) == IF doc # <<>> THEN [name |-> name, doc |-> doc] ELSE [name |-> name]

\* What the loop of parseGoals pushes for a goal with a block, and the
\* lastIndex it sets.
GoalWithBlock(name, blk) ==
  [ok |-> TRUE,
   item |-> GoalItem(name, GoalDoc(Exec(docRegexAt, blk.body, 0))),
   next |-> blk.end + 1]

\* The body of the loop of parseGoals for a match of goalRegex.
GoalsBody(body, match) ==
  IF ~match.ok THEN NoMatch
  ELSE IF match.hasBlock
    THEN GoalWithBlock(sanitizeName(match.name), BlockAfter(body, match))
    ELSE [ok |-> TRUE, item |-> GoalItem(sanitizeName(match.name), <<>>), next |-> match.end]

\* One iteration of the loop of parseGoals.
GoalsIter(body, from) == GoalsBody(body, Exec(goalRegexAt, body, from))

RECURSIVE parseGoalsFrom(_, _)
parseGoalsFrom(body, from) ==
  LET it == GoalsIter(body, from)
  IN IF ~it.ok THEN <<>> ELSE <<it.item>> \o parseGoalsFrom(body, it.next)

parseGoals(body) == parseGoalsFrom(body, 0)

\* The body of the loop of parseAllocations for a match of allocRegex.
AllocationsBody(match) ==
  IF ~match.ok THEN NoMatch
  ELSE [ok |-> TRUE,
        item |-> [goal |-> sanitizeName(match.goal), target |-> sanitizeName(match.target)],
        next |-> match.end]

\* One iteration of the loop of parseAllocations.
AllocationsIter(body, from) == AllocationsBody(Exec(allocRegexAt, body, from))

RECURSIVE parseAllocationsFrom(_, _)
parseAllocationsFrom(body, from) ==
  LET it == AllocationsIter(body, from)
  IN IF ~it.ok THEN <<>> ELSE <<it.item>> \o parseAllocationsFrom(body, it.next)

parseAllocations(body) == parseAllocationsFrom(body, 0)

\* A record holding the fields of all whose value is not the empty list.
NonEmptyFields(all) == [k \in {f \in DOMAIN all : all[f] # <<>>} |-> all[k]]

buildSlice(body) ==
  NonEmptyFields([systems |-> parseTwinSystems(body),
                  goals |-> parseGoals(body),
                  allocations |-> parseAllocations(body)])

\* new RegExp(`#${section}\\s*\\{`, "i")
SectionKeyword(section) ==
  CASE section = "core" -> KwCore
    [] section = "before" -> KwBefore
    [] section = "after" -> KwAfter

sectionRegexAt(section, s, i) == SectionAt(s, i, SectionKeyword(section))

\* exec of the section's pattern on the body of the #dartrans block
SectionExec(section, s) ==
  LET hits == {i \in 0..(Len(s) - 1) : sectionRegexAt(section, s, i).ok}
  IN IF hits = {} THEN NoMatch ELSE sectionRegexAt(section, s, Least(hits))

\* The slice of one section of the body of the #dartrans block.
SectionSlice(section, darTransBody) ==
  buildSlice(BlockAfter(darTransBody, SectionExec(section, darTransBody)).body)

\* The sections found in the body of the #dartrans block: [defined, value].
DarTransSections(darTransBody) ==
  LET found == {section \in {"core", "before", "after"} :
                  SectionExec(section, darTransBody).ok}
  IN IF found = {} THEN [defined |-> FALSE]
     ELSE [defined |-> TRUE,
           value |-> [section \in found |-> SectionSlice(section, darTransBody)]]

\* parseDarTrans for a match of transRegex.
DarTransBody(body, match) ==
  IF ~match.ok THEN [defined |-> FALSE]
  ELSE DarTransSections(BlockAfter(body, match).body)

\* [defined, value]: the dartrans of a root body, when it has one.
parseDarTrans(body) == DarTransBody(body, Exec(transRegexAt, body, 0))

createEmptyModel ==
  [type |-> "DarTwin", name |-> <<>>, systems |-> <<>>, goals |-> <<>>, allocations |-> <<>>]

\* if (dartrans) model.dartrans = dartrans
WithDarTrans(base, dartrans) ==
  IF dartrans.defined
    THEN [k \in DOMAIN base \cup {"dartrans"} |->
            IF k = "dartrans" THEN dartrans.value ELSE base[k]]
    ELSE base

\* The Model of a root block of a given name and body.
ModelOfBody(name, body) ==
  WithDarTrans([type |-> "DarTwin", name |-> name,
                systems |-> parseTwinSystems(body),
                goals |-> parseGoals(body),
                allocations |-> parseAllocations(body)],
               parseDarTrans(body))

\* parseDarTwin for a match of headerRegex.
ModelOfMatch(input, match) ==
  IF ~match.ok THEN createEmptyModel
  ELSE ModelOfBody(sanitizeName(match.name), BlockAfter(input, match).body)

\* A parser that reads the declarations of the whole text when it has no root header.
parseDarTwinNoRootCheck(input) ==
  [type |-> "DarTwin", name |-> <<>>, systems |-> parseTwinSystems(input),
   goals |-> parseGoals(input), allocations |-> parseAllocations(input)]

parseDarTwin(input) == ModelOfMatch(input, Exec(headerRegexAt, input, 0))

(***************************************************************************)
(* The graph builder (darTwinToReactFlow).  A Map is a function from its   *)
(* keys to its values; the builder state st holds the node and edge lists, *)
(* the three lookups and the console.warn diagnostics issued so far.       *)
(***************************************************************************)
Sep == <<":", ":">>

Dot == <<".">>

\* value.trim().replace(/\s+/g, "_"): every run of whitespace becomes one "_"
RECURSIVE CollapseWhitespace(_)
CollapseWhitespace(value) ==
  IF value = <<>> THEN <<>>
  ELSE IF value[1] \in Whitespace
    THEN <<"_">> \o CollapseWhitespace(SliceFrom(value, SkipWhile(value, 0, Whitespace)))
    ELSE <<value[1]>> \o CollapseWhitespace(Tail(value))

toSegment(value) == CollapseWhitespace(Trim(value))

\* String(index) for an array index
RECURSIVE NumberToString(_)
NumberToString(n) ==
  LET digit == <<"0","1","2","3","4","5","6","7","8","9">>[(n % 10) + 1]
  IN IF n < 10 THEN <<digit>> ELSE NumberToString(n \div 10) \o <<digit>>

dartwinSegment(m) == toSegment(IF m.name # <<>> THEN m.name ELSE <<"d","a","r","t","w","i","n">>)

dartwinId(m) == <<"d","w">> \o Sep \o dartwinSegment(m)

systemId(m, system) == <<"t","s">> \o Sep \o dartwinSegment(m) \o Sep \o toSegment(system)

digitalId(m, system, twin) ==
  <<"d","t">> \o Sep \o dartwinSegment(m) \o Sep \o toSegment(system) \o Sep \o toSegment(twin)

originalId(m, system, twin) ==
  <<"a","t">> \o Sep \o dartwinSegment(m) \o Sep \o toSegment(system) \o Sep \o toSegment(twin)

portId(m, system, twin, port) ==
  <<"p","o","r","t">> \o Sep \o dartwinSegment(m) \o Sep \o toSegment(system)
    \o Sep \o toSegment(twin) \o Sep \o toSegment(port)

goalId(m, goal) == <<"g","o","a","l">> \o Sep \o dartwinSegment(m) \o Sep \o toSegment(goal)

EmptyMap == [k \in {} |-> k]

MapHas(map, key) == key \in DOMAIN map

\* map.set(key, value)
MapSet(map, key, value) ==
  [k \in DOMAIN map \cup {key} |-> IF k = key THEN value ELSE map[k]]

\* A push that skips a node whose id the list already holds.
addNodeOnce(st, node) ==
  IF \E k \in DOMAIN st.nodes : st.nodes[k].id = node.id THEN st
  ELSE [st EXCEPT !.nodes = Append(st.nodes, node)]

addNode(st, node) == [st EXCEPT !.nodes = Append(st.nodes, node)]

addEdge(st, edge) == [st EXCEPT !.edges = Append(st.edges, edge)]

\* Aliases that keep the id an alias already has.
setPortAliasesKeepFirst(map, primary, aliases, id) ==
  LET keys == {primary} \cup Range(aliases)
  IN [k \in DOMAIN map \cup keys |-> IF k \in DOMAIN map THEN map[k] ELSE id]

setPortAliases(map, primary, aliases, id) ==
  LET keys == {primary} \cup Range(aliases)
  IN [k \in DOMAIN map \cup keys |-> IF k \in keys THEN id ELSE map[k]]

Undefined == [found |-> FALSE]

\* A resolution that makes up a port id for a reference it does not know.
resolvePortIdFabricating(map, system, reference) ==
  LET trimmed == Trim(reference)
  IN IF MapHas(map, trimmed) THEN [found |-> TRUE, id |-> map[trimmed]]
     ELSE [found |-> TRUE, id |-> <<"p","o","r","t">> \o Sep \o trimmed]

\* [found, id]: found is FALSE for the result undefined
resolvePortId(map, system, reference) ==
  LET trimmed == Trim(reference)
      withSystem == system \o Dot \o trimmed
      systemPrefix == system \o Dot
      withoutSystem == SliceFrom(trimmed, Len(systemPrefix))
  IN IF MapHas(map, trimmed) THEN [found |-> TRUE, id |-> map[trimmed]]
     ELSE IF MapHas(map, withSystem) THEN [found |-> TRUE, id |-> map[withSystem]]
     ELSE IF StartsWith(trimmed, systemPrefix) /\ MapHas(map, withoutSystem)
       THEN [found |-> TRUE, id |-> map[withoutSystem]]
       ELSE Undefined

resolveDigitalTwinId(map, system, target) ==
  LET trimmed == Trim(target)
      systemPrefix == system \o Dot
      withoutSystem == SliceFrom(trimmed, Len(systemPrefix))
  IN IF MapHas(map, trimmed) THEN [found |-> TRUE, id |-> map[trimmed]]
     ELSE IF StartsWith(trimmed, systemPrefix) /\ MapHas(map, withoutSystem)
       THEN [found |-> TRUE, id |-> map[withoutSystem]]
       ELSE Undefined

\* value.split(".")[0]
FirstSegment(value) ==
  LET dot == IndexOf(value, ".", 0)
  IN IF dot < 0 THEN value ELSE Slice(value, 0, dot)

\* A port node whose parent is the system of its twin.
AddPortUnderSystem(m, st, system, twin, twinNodeId, port) ==
  LET portNodeId == portId(m, system.name, twin.name, port)
      added == addNode(st, [id |-> portNodeId, type |-> "port", label |-> port,
                            parentId |-> systemId(m, system.name)])
  IN [added EXCEPT !.portLookup =
        setPortAliases(st.portLookup, twin.name \o Dot \o port,
                       <<system.name \o Dot \o twin.name \o Dot \o port>>, portNodeId)]

\* The body of ports.forEach for a port of the twin with node id twinNodeId.
AddPort(m, st, system, twin, twinNodeId, port) ==
  LET portNodeId == portId(m, system.name, twin.name, port)
      added == addNode(st, [id |-> portNodeId, type |-> "port", label |-> port,
                            parentId |-> twinNodeId])
  IN [added EXCEPT !.portLookup =
        setPortAliases(st.portLookup, twin.name \o Dot \o port,
                       <<system.name \o Dot \o twin.name \o Dot \o port>>, portNodeId)]

RECURSIVE ForEachPort(_, _, _, _, _, _)
ForEachPort(m, st, system, twin, twinNodeId, k) ==
  IF k > Len(twin.ports) THEN st
  ELSE ForEachPort(m, AddPort(m, st, system, twin, twinNodeId, twin.ports[k]),
                   system, twin, twinNodeId, k + 1)

\* The body of system.digital_twins.forEach
AddDigitalTwin(m, st, system, dt) ==
  LET dtNodeId == digitalId(m, system.name, dt.name)
      looked == [st EXCEPT !.digitalTwinLookup =
                   MapSet(MapSet(st.digitalTwinLookup, dt.name, dtNodeId),
                          system.name \o Dot \o dt.name, dtNodeId)]
      added == addNode(looked, [id |-> dtNodeId, type |-> "dt", label |-> dt.name,
                                parentId |-> systemId(m, system.name)])
  IN ForEachPort(m, added, system, dt, dtNodeId, 1)

RECURSIVE ForEachDigitalTwin(_, _, _, _)
ForEachDigitalTwin(m, st, system, k) ==
  IF k > Len(system.digital_twins) THEN st
  ELSE ForEachDigitalTwin(m, AddDigitalTwin(m, st, system, system.digital_twins[k]),
                          system, k + 1)

\* The body of system.original_twins.forEach
AddOriginalTwin(m, st, system, ot) ==
  LET otNodeId == originalId(m, system.name, ot.name)
      added == addNode(st, [id |-> otNodeId, type |-> "at", label |-> ot.name,
                            parentId |-> systemId(m, system.name)])
  IN ForEachPort(m, added, system, ot, otNodeId, 1)

RECURSIVE ForEachOriginalTwin(_, _, _, _)
ForEachOriginalTwin(m, st, system, k) ==
  IF k > Len(system.original_twins) THEN st
  ELSE ForEachOriginalTwin(m, AddOriginalTwin(m, st, system, system.original_twins[k]),
                           system, k + 1)

\* The edge of a connection; label is connection.name, absent when undefined.
ConnectionEdge(system, connection, index, sourceId, targetId) ==
  LET base == [id |-> <<"c","o","n","n","e","c","t">> \o Sep \o toSegment(system.name)
                        \o Sep \o NumberToString(index),
               source |-> sourceId, target |-> targetId]
  IN IF "name" \in DOMAIN connection
       THEN [k \in DOMAIN base \cup {"label"} |->
               IF k = "label" THEN connection.name ELSE base[k]]
       ELSE base

\* The body of system.connections.forEach for the connection at index.
AddConnection(st, system, connection, index) ==
  LET sourceId == resolvePortId(st.portLookup, system.name, connection.from)
      targetId == resolvePortId(st.portLookup, system.name, connection.to)
  IN IF ~sourceId.found \/ ~targetId.found
       THEN [st EXCEPT !.warnings =
               Append(st.warnings, [kind |-> "connection", from |-> connection.from,
                                    to |-> connection.to])]
       ELSE addEdge(st, ConnectionEdge(system, connection, index, sourceId.id, targetId.id))

\* A connection loop that an unknown port ends: the connections after it are not read.
RECURSIVE ForEachConnectionHalting(_, _, _)
ForEachConnectionHalting(st, system, k) ==
  IF k > Len(system.connections) THEN st
  ELSE LET after == AddConnection(st, system, system.connections[k], k - 1)
       IN IF Len(after.warnings) > Len(st.warnings) THEN after
          ELSE ForEachConnectionHalting(after, system, k + 1)

RECURSIVE ForEachConnection(_, _, _)
ForEachConnection(st, system, k) ==
  IF k > Len(system.connections) THEN st
  ELSE ForEachConnection(AddConnection(st, system, system.connections[k], k - 1),
                         system, k + 1)

\* The part of the body of model.systems.forEach before the connections: the
\* nodes and lookups of the system and of its twins.
RegisterSystem(m, st, system) ==
  LET added == addNode(st, [id |-> systemId(m, system.name), type |-> "twinsystem",
                            label |-> system.name, parentId |-> dartwinId(m)])
  IN ForEachOriginalTwin(m, ForEachDigitalTwin(m, added, system, 1), system, 1)

\* The body of model.systems.forEach
AddSystem(m, st, system) == ForEachConnection(RegisterSystem(m, st, system), system, 1)

RECURSIVE ForEachSystem(_, _, _, _)
ForEachSystem(m, st, systems, k) ==
  IF k > Len(systems) THEN st
  ELSE ForEachSystem(m, AddSystem(m, st, systems[k]), systems, k + 1)

\* The body of model.goals.forEach; doc is goal.doc, absent when undefined.
AddGoal(m, st, goal) ==
  LET goalNodeId == goalId(m, goal.name)
      base == [id |-> goalNodeId, type |-> "goal", label |-> goal.name,
               parentId |-> dartwinId(m)]
      node == IF "doc" \in DOMAIN goal
                THEN [k \in DOMAIN base \cup {"doc"} |->
                        IF k = "doc" THEN goal.doc ELSE base[k]]
                ELSE base
  IN addNode([st EXCEPT !.goalLookup = MapSet(st.goalLookup, goal.name, goalNodeId)], node)

RECURSIVE ForEachGoal(_, _, _)
ForEachGoal(m, st, k) ==
  IF k > Len(m.goals) THEN st
  ELSE ForEachGoal(m, AddGoal(m, st, m.goals[k]), k + 1)

\* The body of model.allocations.forEach
AddAllocation(st, allocation) ==
  LET targetId == resolveDigitalTwinId(st.digitalTwinLookup,
                                       FirstSegment(allocation.target), allocation.target)
  IN IF ~MapHas(st.goalLookup, allocation.goal) \/ ~targetId.found
       THEN [st EXCEPT !.warnings =
               Append(st.warnings, [kind |-> "allocation", from |-> allocation.goal,
                                    to |-> allocation.target])]
       ELSE addEdge(st, [id |-> <<"a","l","l","o","c","a","t","i","o","n">> \o Sep
                                  \o toSegment(allocation.target) \o Sep
                                  \o toSegment(allocation.goal),
                         source |-> targetId.id,
                         target |-> st.goalLookup[allocation.goal],
                         label |-> <<"a","l","l","o","c","a","t","e">>])

RECURSIVE ForEachAllocation(_, _, _)
ForEachAllocation(m, st, k) ==
  IF k > Len(m.allocations) THEN st
  ELSE ForEachAllocation(m, AddAllocation(st, m.allocations[k]), k + 1)

\* The builder state after the root node has been added.
RootState(m) ==
  [nodes |-> <<[id |-> dartwinId(m), type |-> "dartwin", label |-> m.name]>>,
   edges |-> <<>>,
   portLookup |-> EmptyMap,
   digitalTwinLookup |-> EmptyMap,
   goalLookup |-> EmptyMap,
   warnings |-> <<>>]

\* The builder state when darTwinToReactFlow returns.
BuildState(m) ==
  ForEachAllocation(m, ForEachGoal(m, ForEachSystem(m, RootState(m), m.systems, 1), 1), 1)

darTwinToReactFlow(m) ==
  LET st == BuildState(m) IN [nodes |-> st.nodes, edges |-> st.edges]

(***************************************************************************)
(* Input texts: an optional root header followed by pieces of DSL text.    *)
(***************************************************************************)
RootHeader ==
  <<"#","d","a","r","t","w","i","n"," ","a","{">>

RootHeaderSpaced ==
  <<"#","D","a","r","T","w","i","n"," ","b","-","1"," ","{">>

FragSystem ==
  <<"#","t","w","i","n","s","y","s","t","e","m"," ","s","{">>

FragDigitalTwin ==
  <<"#","d","i","g","i","t","a","l","t","w","i","n"," ","d","{","p","o","r","t"," ","p",";","}">>

FragPart ==
  <<"p","a","r","t"," ","o","{","p","o","r","t"," ","q",";">>

FragConnect ==
  <<"c","o","n","n","e","c","t"," ","d",".","p"," ","t","o"," ","o",".","q",";">>

FragGoal ==
  <<"#","g","o","a","l"," ","g"," ">>

FragGoalDoc ==
  <<"#","g","o","a","l"," ","h","{","d","o","c"," ","/","*"," ","x","\n"," ","y"," ","*","/">>

FragAllocate ==
  <<"a","l","l","o","c","a","t","e"," ","g"," ","t","o"," ","s",".","d",";">>

FragClose ==
  <<"}">>

FragDarTrans ==
  <<"#","d","a","r","t","r","a","n","s","{","#","c","o","r","e","{">>

FragPorts ==
  <<"p","o","r","t"," ","q",";","p","o","r","t"," ","p",";","p","o","r","t"," ","q",";">>

Roots == {<<>>, RootHeader, RootHeaderSpaced}

Frags ==
  {FragSystem, FragDigitalTwin, FragPart, FragConnect, FragGoal, FragGoalDoc, FragAllocate, FragClose, FragDarTrans,
   FragPorts}

MaxFrags == 3

MaxScanFrags == 2

\* Documents with a #dartrans block whose sections hold declarations.
DarTransCoreGoal ==
  <<"#","d","a","r","t","w","i","n"," ","a","{","#","g","o","a","l"," ","k"," ","#","d","a","r","t","r","a","n","s","{","#","c","o","r","e","{","#","g","o","a","l"," ","g"," ","}","}","}">>

DarTransBeforeAfter ==
  <<"#","d","a","r","t","w","i","n"," ","a","{","#","d","a","r","t","r","a","n","s","{","#","b","e","f","o","r","e","{","#","t","w","i","n","s","y","s","t","e","m"," ","s","{","}","}","#","a","f","t","e","r","{","a","l","l","o","c","a","t","e"," ","g"," ","t","o"," ","s",".","d",";","}","}","#","g","o","a","l"," ","g"," ","}">>

DarTransTexts == {DarTransCoreGoal, DarTransBeforeAfter}

Texts == {r \o Concat(fs) : r \in Roots, fs \in SeqUpTo(Frags, MaxFrags)} \cup DarTransTexts

\* Bodies with a header inside the block of a header of the same kind.
NestedSystems ==
  <<"#","t","w","i","n","s","y","s","t","e","m"," ","s","{","#","t","w","i","n","s","y","s","t","e","m"," ","r","{","}","}","#","t","w","i","n","s","y","s","t","e","m"," ","q","{","}">>

NestedDigitalTwins ==
  <<"#","d","i","g","i","t","a","l","t","w","i","n"," ","d","{","#","d","i","g","i","t","a","l","t","w","i","n"," ","e","{","p","o","r","t"," ","p",";","}","}","#","d","i","g","i","t","a","l","t","w","i","n"," ","f","{">>

NestedParts ==
  <<"p","a","r","t"," ","o","{","p","a","r","t"," ","n","{","p","o","r","t"," ","q",";","}","}","p","a","r","t"," ","m","{","}">>

NestedGoals ==
  <<"#","g","o","a","l"," ","h","{","#","g","o","a","l"," ","g"," ","}","#","g","o","a","l"," ","k">>

NestedBodies == {NestedSystems, NestedDigitalTwins, NestedParts, NestedGoals}

ScanBodies == {Concat(fs) : fs \in SeqUpTo(Frags, MaxScanFrags)} \cup NestedBodies

(***************************************************************************)
(* SpecParse: parseDarTwin applied to a text.                              *)
(***************************************************************************)
InitParse ==
  /\ decls = Unused /\ layout = Unused /\ stateNodes = Unused /\ stateEdges = Unused /\ layoutSignature = Unused
  /\ text \in Texts
  /\ pc = "text"
  /\ model = Unused
  /\ src = Unused /\ openIdx = 0 /\ block = Unused /\ graph = Unused /\ console = <<>>
  /\ scanKind = Unused /\ lastIndex = 0 /\ items = <<>>

ParseDarTwin ==
  /\ pc = "text"
  /\ model' = parseDarTwin(text)
  /\ pc' = "parsed"
  /\ UNCHANGED <<stateNodes, stateEdges, layoutSignature, decls, layout, src, openIdx, block, text, graph, console, scanKind, lastIndex, items>>

NextParse == ParseDarTwin

SpecParse == InitParse /\ [][NextParse]_vars

(***************************************************************************)
(* SpecScan: the scanning loops of the parser, one iteration per step.     *)
(* text is the body the loop scans, lastIndex the lastIndex of its regular *)
(* expression, items the list it has pushed so far.                        *)
(***************************************************************************)
ScanKinds ==
  {"systems", "digital_twins", "original_twins", "ports", "connections", "goals", "allocations"}

InitScan ==
  /\ decls = Unused /\ layout = Unused /\ stateNodes = Unused /\ stateEdges = Unused /\ layoutSignature = Unused
  /\ text \in ScanBodies
  /\ scanKind \in ScanKinds
  /\ lastIndex = 0
  /\ items = <<>>
  /\ pc = "scan"
  /\ src = Unused /\ openIdx = 0 /\ block = Unused /\ model = Unused /\ graph = Unused
  /\ console = <<>>

\* A loop that puts each item in front of the list (unshift) instead of at
\* its end.
ScanStepUnshift(it) ==
  /\ pc = "scan"
  /\ IF it.ok
       THEN /\ items' = <<it.item>> \o items
            /\ lastIndex' = it.next
            /\ pc' = "scan"
       ELSE /\ items' = items
            /\ lastIndex' = 0
            /\ pc' = "done"
  /\ UNCHANGED <<stateNodes, stateEdges, layoutSignature, decls, layout, src, openIdx, block, text, model, graph, console, scanKind>>

\* One evaluation of the loop condition and, on a match, of the loop body.  A
\* failed exec ends the loop and resets lastIndex to 0.
ScanStep(it) ==
  /\ pc = "scan"
  /\ IF it.ok
       THEN /\ items' = Append(items, it.item)
            /\ lastIndex' = it.next
            /\ pc' = "scan"
       ELSE /\ items' = items
            /\ lastIndex' = 0
            /\ pc' = "done"
  /\ UNCHANGED <<stateNodes, stateEdges, layoutSignature, decls, layout, src, openIdx, block, text, model, graph, console, scanKind>>

ScanTwinSystems == scanKind = "systems" /\ ScanStep(TwinSystemsIter(text, lastIndex))

ScanDigitalTwins == scanKind = "digital_twins" /\ ScanStep(DigitalTwinsIter(text, lastIndex))

ScanOriginalTwins == scanKind = "original_twins" /\ ScanStep(OriginalTwinsIter(text, lastIndex))

ScanPorts == scanKind = "ports" /\ ScanStep(PortsIter(text, lastIndex))

ScanConnections == scanKind = "connections" /\ ScanStep(ConnectionsIter(text, lastIndex))

ScanGoals == scanKind = "goals" /\ ScanStep(GoalsIter(text, lastIndex))

ScanAllocations == scanKind = "allocations" /\ ScanStep(AllocationsIter(text, lastIndex))

NextScan ==
  \/ ScanTwinSystems
  \/ ScanDigitalTwins
  \/ ScanOriginalTwins
  \/ ScanPorts
  \/ ScanConnections
  \/ ScanGoals
  \/ ScanAllocations

SpecScan == InitScan /\ [][NextScan]_vars

(***************************************************************************)
(* SpecBuild: darTwinToReactFlow applied to a Model.  The Models are those *)
(* the parser yields for documents of up to MaxSystems systems whose       *)
(* names, ports and references are drawn from the sets below.              *)
(***************************************************************************)
MaxSystems == 2

N(c) == <<c>>

Ref2(a, b) == <<a, ".", b>>

Ref3(a, b, c) == <<a, ".", b, ".", c>>

SystemNames == {N("s"), N("r")}

DigitalTwinLists ==
  { <<[name |-> N("t"), ports |-> <<N("p")>>]>>,
    <<[name |-> N("t"), ports |-> <<N("p"), N("p")>>]>> }

OriginalTwinLists ==
  { <<[name |-> N("o"), ports |-> <<N("q")>>]>>,
    <<[name |-> N("t"), ports |-> <<N("p")>>]>> }

ConnectionLists ==
  { <<>>,
    <<[from |-> Ref2("t", "p"), to |-> Ref3("s", "t", "p")]>>,
    <<[from |-> Ref2("x", "p"), to |-> Ref2("t", "p")],
      [from |-> Ref2("t", "p"), to |-> Ref2("o", "q"), name |-> N("n")]>> }

Systems ==
  [name : SystemNames, digital_twins : DigitalTwinLists,
   original_twins : OriginalTwinLists, connections : ConnectionLists]

\* The goals and allocations of a Model: none; an allocation that resolves;
\* an allocation to an unknown twin before one that resolves; an allocation
\* of an undeclared goal.
GoalsAndAllocations ==
  { [goals |-> <<>>, allocations |-> <<>>],
    [goals |-> <<[name |-> N("g"), doc |-> N("d")]>>,
     allocations |-> <<[goal |-> N("g"), target |-> Ref2("s", "t")]>>],
    [goals |-> <<[name |-> N("g")]>>,
     allocations |-> <<[goal |-> N("g"), target |-> N("z")],
                       [goal |-> N("g"), target |-> N("t")]>>],
    [goals |-> <<>>,
     allocations |-> <<[goal |-> N("g"), target |-> Ref2("s", "t")]>>] }

Models ==
  { [type |-> "DarTwin", name |-> N("a"), systems |-> ss,
     goals |-> ga.goals, allocations |-> ga.allocations]
    : ss \in SeqUpTo(Systems, MaxSystems), ga \in GoalsAndAllocations }

\* The Model of the sample document of the application and of the tests:
\* one system with a digital twin and a part of four ports each, four
\* connections, two goals and two allocations.

SampleDigitalTwin ==
  [name |-> <<"S","t","r","a","w","b","e","r","r","y","D","T">>,
   ports |-> <<<<"m","u","l","t","i","s","e","n","s","o","r","_","i","n","p","u","t">>,
              <<"a","c","t","u","a","t","o","r","_","o","u","t","p","u","t","_","i","r","r","i","g","a","t","i","o","n">>,
              <<"a","c","t","u","a","t","o","r","_","o","u","t","p","u","t","_","h","u","m","a","n">>,
              <<"a","c","t","u","a","t","o","r","_","o","u","t","p","u","t","_","v","e","n","t","i","l","a","t","i","o","n">>>>]

SampleOriginalTwin ==
  [name |-> <<"C","u","l","t","i","v","a","t","i","o","n">>,
   ports |-> <<<<"M","u","l","t","i","S","e","n","s","o","r">>,
              <<"I","r","r","i","g","a","t","i","o","n","A","c","t","u","a","t","o","r">>,
              <<"H","u","m","a","n","A","c","t","u","a","t","o","r">>,
              <<"V","e","n","t","i","l","a","t","i","o","n","A","c","t","u","a","t","o","r">>>>]

SampleConnections ==
  <<[from |-> <<"S","t","r","a","w","b","e","r","r","y",".","C","u","l","t","i","v","a","t","i","o","n",".","M","u","l","t","i","S","e","n","s","o","r">>,
     to |-> <<"S","t","r","a","w","b","e","r","r","y","D","T",".","m","u","l","t","i","s","e","n","s","o","r","_","i","n","p","u","t">>],
    [from |-> <<"S","t","r","a","w","b","e","r","r","y","D","T",".","a","c","t","u","a","t","o","r","_","o","u","t","p","u","t","_","i","r","r","i","g","a","t","i","o","n">>,
     to |-> <<"S","t","r","a","w","b","e","r","r","y",".","C","u","l","t","i","v","a","t","i","o","n",".","I","r","r","i","g","a","t","i","o","n","A","c","t","u","a","t","o","r">>],
    [from |-> <<"S","t","r","a","w","b","e","r","r","y","D","T",".","a","c","t","u","a","t","o","r","_","o","u","t","p","u","t","_","h","u","m","a","n">>,
     to |-> <<"S","t","r","a","w","b","e","r","r","y",".","C","u","l","t","i","v","a","t","i","o","n",".","H","u","m","a","n","A","c","t","u","a","t","o","r">>],
    [from |-> <<"S","t","r","a","w","b","e","r","r","y","D","T",".","a","c","t","u","a","t","o","r","_","o","u","t","p","u","t","_","v","e","n","t","i","l","a","t","i","o","n">>,
     to |-> <<"S","t","r","a","w","b","e","r","r","y",".","C","u","l","t","i","v","a","t","i","o","n",".","V","e","n","t","i","l","a","t","i","o","n","A","c","t","u","a","t","o","r">>]>>

SampleGoals ==
  <<[name |-> <<"i","n","c","r","e","a","s","e","_","y","i","e","l","d">>,
     doc |-> <<"y","i","e","l","d"," ","y"," ","h","i","g","h","e","r"," ","y"," ","t","h","a","n"," ","b","e","f","o","r","e">>],
    [name |-> <<"a","p","p","l","y","_","d","e","c","r","e","a","s","e","d","_","w","a","t","e","r">>,
     doc |-> <<"w","a","t","e","r"," ","c","o","n","s","u","m","p","t","i","o","n"," ","w"," ","l","o","w","e","r"," ","w"," ","t","h","a","n"," ","b","e","f","o","r","e">>]>>

SampleAllocations ==
  <<[goal |-> <<"i","n","c","r","e","a","s","e","_","y","i","e","l","d">>,
     target |-> <<"S","t","r","a","w","b","e","r","r","y",".","S","t","r","a","w","b","e","r","r","y","D","T">>],
    [goal |-> <<"a","p","p","l","y","_","d","e","c","r","e","a","s","e","d","_","w","a","t","e","r">>,
     target |-> <<"S","t","r","a","w","b","e","r","r","y",".","S","t","r","a","w","b","e","r","r","y","D","T">>]>>

SampleModel ==
  [type |-> "DarTwin", name |-> <<"S","t","r","a","w","b","e","r","r","y","C","u","l","t","i","v","a","t","i","o","n","T","r","a","n","s">>,
   systems |-> <<[name |-> <<"S","t","r","a","w","b","e","r","r","y">>,
                  digital_twins |-> <<SampleDigitalTwin>>,
                  original_twins |-> <<SampleOriginalTwin>>,
                  connections |-> SampleConnections]>>,
   goals |-> SampleGoals,
   allocations |-> SampleAllocations]

\* Models of a goal g and one allocation of it, for the resolution of
\* allocation targets: the target names a digital twin or a part, bare or
\* qualified by a system that owns it, by another system or by no system.
AllocationTargets ==
  {Ref2("s", "t"), Ref2("r", "t"), Ref2("x", "t"), N("t"), N("o"), Ref2("s", "o")}

AllocationSystem(name, twin) ==
  [name |-> N(name),
   digital_twins |-> <<[name |-> N(twin), ports |-> <<N("p")>>]>>,
   original_twins |-> <<[name |-> N("o"), ports |-> <<N("q")>>]>>,
   connections |-> <<>>]

AllocationSystemLists ==
  { <<AllocationSystem("s", "t")>>,
    <<AllocationSystem("r", "t")>>,
    <<AllocationSystem("s", "u"), AllocationSystem("r", "t")>> }

AllocationModels ==
  { [type |-> "DarTwin", name |-> N("a"), systems |-> ss,
     goals |-> <<[name |-> N("g")]>>,
     allocations |-> <<[goal |-> N("g"), target |-> target]>>]
    : ss \in AllocationSystemLists, target \in AllocationTargets }

\* The Models the builder is applied to.
BuildModels == Models \cup {SampleModel} \cup AllocationModels

InitBuild ==
  /\ decls = Unused /\ layout = Unused /\ stateNodes = Unused /\ stateEdges = Unused /\ layoutSignature = Unused
  /\ model \in BuildModels
  /\ pc = "parsed"
  /\ graph = Unused
  /\ console = <<>>
  /\ src = Unused /\ openIdx = 0 /\ block = Unused /\ text = Unused
  /\ scanKind = Unused /\ lastIndex = 0 /\ items = <<>>

DarTwinToReactFlow ==
  /\ pc = "parsed"
  /\ graph' = darTwinToReactFlow(model)
  /\ console' = console \o BuildState(model).warnings
  /\ pc' = "built"
  /\ UNCHANGED <<stateNodes, stateEdges, layoutSignature, decls, layout, src, openIdx, block, text, model, scanKind, lastIndex, items>>

NextBuild == DarTwinToReactFlow

SpecBuild == InitBuild /\ [][NextBuild]_vars

NodeIds(g) == {g.nodes[k].id : k \in DOMAIN g.nodes}

\* All twins (digital and original) of a system, as a set.
TwinsOf(system) == Range(system.digital_twins) \cup Range(system.original_twins)

\* C1: every edge of the graph has a source and a target that are ids of
\* nodes of the same graph.
C1_EdgeEndpointsExist ==
  pc = "built" =>
    \A k \in DOMAIN graph.edges :
      /\ graph.edges[k].source \in NodeIds(graph)
      /\ graph.edges[k].target \in NodeIds(graph)

\* C1 witness: a graph with an edge, built from a Model of which a connection
\* with an unknown port was dropped.
C1_Witness ==
  /\ pc = "built"
  /\ graph.edges # <<>>
  /\ \E k \in DOMAIN console : console[k].kind = "connection"

\* C2: no two nodes of the graph share an id.
C2_NodeIdsUnique ==
  pc = "built" =>
    \A i, j \in DOMAIN graph.nodes :
      graph.nodes[i].id = graph.nodes[j].id => i = j

\* The port lookup at the moment the connections of the k-th system are resolved.
PortLookupAt(m, k) ==
  RegisterSystem(m, ForEachSystem(m, RootState(m), SubSeq(m.systems, 1, k - 1), 1),
                 m.systems[k]).portLookup

\* C3: inside a system S that declares twin T with port p, the references
\* T.p and S.T.p both resolve to the id of the port node of p on T in S,
\* whatever twins the systems declared before or after S have.
C3_AliasesResolveToOwnPort ==
  pc = "built" =>
    \A k \in DOMAIN model.systems :
      LET S == model.systems[k]
          lookup == PortLookupAt(model, k)
      IN \A T \in TwinsOf(S) : \A j \in DOMAIN T.ports :
           LET p == T.ports[j]
               own == [found |-> TRUE, id |-> portId(model, S.name, T.name, p)]
           IN /\ own.id \in NodeIds(graph)
              /\ resolvePortId(lookup, S.name, T.name \o Dot \o p) = own
              /\ resolvePortId(lookup, S.name, S.name \o Dot \o T.name \o Dot \o p) = own

\* C3 witness: two systems of different names both declare twin t with port
\* p, and the second one's connection from t.p starts at its own port.
C3_Witness ==
  /\ pc = "built"
  /\ Len(model.systems) = 2
  /\ model.systems[1].name = N("s")
  /\ model.systems[2].name = N("r")
  /\ \E k \in DOMAIN graph.edges :
       /\ graph.edges[k].source = portId(model, N("r"), N("t"), N("p"))
       /\ graph.edges[k].target = portId(model, N("s"), N("t"), N("p"))

\* The references under which a port is known when the connections of the
\* k-th system are resolved.
KnownPortRefs(m, k) ==
  UNION { UNION { { T.name \o Dot \o T.ports[j],
                    m.systems[i].name \o Dot \o T.name \o Dot \o T.ports[j] }
                  : j \in DOMAIN T.ports }
          : i \in 1..k, T \in UNION {TwinsOf(m.systems[n]) : n \in 1..k} }

\* A port reference resolves for the k-th system when it, or it behind the
\* system's name, or it without the system's name in front, is a known reference.
RefResolves(m, k, reference) ==
  LET r == Trim(reference)
      prefix == m.systems[k].name \o Dot
      known == KnownPortRefs(m, k)
  IN \/ r \in known
     \/ prefix \o r \in known
     \/ StartsWith(r, prefix) /\ SliceFrom(r, Len(prefix)) \in known

\* The part of a reference after its last "."
LastSegment(reference) ==
  LET dots == {i \in DOMAIN reference : reference[i] = "."}
  IN IF dots = {} THEN reference
     ELSE SubSeq(reference, (CHOOSE i \in dots : \A j \in dots : j <= i) + 1, Len(reference))

PortNames(m) ==
  UNION {UNION {Range(T.ports) : T \in TwinsOf(m.systems[k])} : k \in DOMAIN m.systems}

TwinNames(m) ==
  UNION {{T.name : T \in TwinsOf(m.systems[k])} : k \in DOMAIN m.systems}

GoalNames(m) == {m.goals[k].name : k \in DOMAIN m.goals}

\* <<k, i>> for the i-th connection of the k-th system
ConnectionSites(m) ==
  UNION {{<<k, i>> : i \in DOMAIN m.systems[k].connections} : k \in DOMAIN m.systems}

\* A connection one of whose ports exists nowhere in the Model.
DanglingConnection(m, c) ==
  \/ LastSegment(Trim(c.from)) \notin PortNames(m)
  \/ LastSegment(Trim(c.to)) \notin PortNames(m)

\* An allocation whose goal or twin exists nowhere in the Model.
DanglingAllocation(m, a) ==
  \/ a.goal \notin GoalNames(m)
  \/ LastSegment(Trim(a.target)) \notin TwinNames(m)

\* An allocation resolves when its goal is declared and its target, or its
\* target without its first segment, is the name or the qualified name of a
\* digital twin.
AllocationResolves(m, a) ==
  LET r == Trim(a.target)
      known == UNION {UNION {{T.name, m.systems[k].name \o Dot \o T.name}
                             : T \in Range(m.systems[k].digital_twins)}
                      : k \in DOMAIN m.systems}
      prefix == FirstSegment(a.target) \o Dot
  IN /\ a.goal \in GoalNames(m)
     /\ \/ r \in known
        \/ StartsWith(r, prefix) /\ SliceFrom(r, Len(prefix)) \in known

Warned(kind, from, to) ==
  {k \in DOMAIN console : console[k] = [kind |-> kind, from |-> from, to |-> to]}

\* C4: the builder returns a graph for a Model with unresolved references;
\* every connection and allocation is read and yields either its edge or a
\* diagnostic (none halts the rest); one whose port, twin or goal exists
\* nowhere in the Model yields a diagnostic and no edge; and the edges are
\* as many as the connections and allocations that resolve.
C4_DanglingDroppedRestKept ==
  pc = "built" =>
    LET sites == ConnectionSites(model)
        conn(site) == model.systems[site[1]].connections[site[2]]
        allocs == DOMAIN model.allocations
    IN /\ Len(graph.edges) + Len(console) = Cardinality(sites) + Cardinality(allocs)
       /\ Len(graph.edges) =
            Cardinality({site \in sites :
                           /\ RefResolves(model, site[1], conn(site).from)
                           /\ RefResolves(model, site[1], conn(site).to)})
            + Cardinality({i \in allocs : AllocationResolves(model, model.allocations[i])})
       /\ \A site \in sites :
            DanglingConnection(model, conn(site)) =>
              Cardinality(Warned("connection", conn(site).from, conn(site).to))
                = Cardinality({other \in sites :
                                 /\ conn(other).from = conn(site).from
                                 /\ conn(other).to = conn(site).to})
       /\ \A i \in allocs :
            DanglingAllocation(model, model.allocations[i]) =>
              Cardinality(Warned("allocation", model.allocations[i].goal,
                                 model.allocations[i].target))
                = Cardinality({j \in allocs : model.allocations[j] = model.allocations[i]})

\* C4 witness: a connection with an unknown port and an allocation to an
\* unknown twin were dropped, and a connection and an allocation that come
\* after them in the Model have their edges.
C4_Witness ==
  /\ pc = "built"
  /\ \E k \in DOMAIN console : console[k].kind = "connection"
  /\ \E k \in DOMAIN console : console[k].kind = "allocation"
  /\ \E i, j \in DOMAIN graph.edges :
       /\ "label" \in DOMAIN graph.edges[i]
       /\ graph.edges[i].label = N("n")
       /\ graph.edges[j].label = <<"a","l","l","o","c","a","t","e">>

\* Sum of f over 1..n
RECURSIVE SumUpTo(_, _)
SumUpTo(f, n) == IF n = 0 THEN 0 ELSE f[n] + SumUpTo(f, n - 1)

\* The number of twins and of ports declared in a system.
SystemTwinCount(system) == Len(system.digital_twins) + Len(system.original_twins)

SystemPortCount(system) ==
  SumUpTo([k \in DOMAIN system.digital_twins |-> Len(system.digital_twins[k].ports)],
          Len(system.digital_twins))
  + SumUpTo([k \in DOMAIN system.original_twins |-> Len(system.original_twins[k].ports)],
            Len(system.original_twins))

\* The number of entities a Model declares: root, systems, twins, ports, goals.
EntityCount(m) ==
  1 + Len(m.systems)
    + SumUpTo([k \in DOMAIN m.systems |-> SystemTwinCount(m.systems[k])], Len(m.systems))
    + SumUpTo([k \in DOMAIN m.systems |-> SystemPortCount(m.systems[k])], Len(m.systems))
    + Len(m.goals)

NodesOfType(g, type) == {k \in DOMAIN g.nodes : g.nodes[k].type = type}

AllocateEdges(g) ==
  {k \in DOMAIN g.edges :
     "label" \in DOMAIN g.edges[k] /\ g.edges[k].label = <<"a","l","l","o","c","a","t","e">>}

\* C11: the graph holds one node per declared entity (root, systems, digital
\* twins, original twins, ports, goals, a repeated port counted each time) and
\* one edge per connection and per allocation whose references resolve; for
\* the sample Model that is 14 nodes, 4 connection edges and 2 "allocate" edges.
C11_OneNodePerEntityOneEdgePerResolved ==
  pc = "built" =>
    /\ Len(graph.nodes) = EntityCount(model)
    /\ Cardinality(NodesOfType(graph, "dartwin")) = 1
    /\ Cardinality(NodesOfType(graph, "twinsystem")) = Len(model.systems)
    /\ Cardinality(NodesOfType(graph, "goal")) = Len(model.goals)
    /\ Cardinality(NodesOfType(graph, "dt")) + Cardinality(NodesOfType(graph, "at"))
         = SumUpTo([k \in DOMAIN model.systems |-> SystemTwinCount(model.systems[k])],
                   Len(model.systems))
    /\ Cardinality(NodesOfType(graph, "port"))
         = SumUpTo([k \in DOMAIN model.systems |-> SystemPortCount(model.systems[k])],
                   Len(model.systems))
    /\ Cardinality(AllocateEdges(graph))
         = Cardinality({i \in DOMAIN model.allocations :
                          AllocationResolves(model, model.allocations[i])})
    /\ Len(graph.edges) - Cardinality(AllocateEdges(graph))
         = Cardinality({site \in ConnectionSites(model) :
              /\ RefResolves(model, site[1], model.systems[site[1]].connections[site[2]].from)
              /\ RefResolves(model, site[1], model.systems[site[1]].connections[site[2]].to)})
    /\ model = SampleModel =>
         /\ Len(graph.nodes) = 14
         /\ Cardinality(AllocateEdges(graph)) = 2
         /\ Len(graph.edges) - Cardinality(AllocateEdges(graph)) = 4

\* C11 witness: the graph of the sample Model has been built.
C11_Witness == pc = "built" /\ model = SampleModel

\* C11 witness of the general count: a Model with a repeated port name, a
\* dangling connection and an edge has been built.
C11_WitnessRepeatedPort ==
  /\ pc = "built"
  /\ model # SampleModel
  /\ \E i, j \in DOMAIN graph.nodes : i # j /\ graph.nodes[i].id = graph.nodes[j].id
  /\ console # <<>>
  /\ graph.edges # <<>>

(***************************************************************************)
(* SpecBlock: one call of a block extractor on a source and the index of   *)
(* an opening brace in it.                                                 *)
(***************************************************************************)
MaxSrcLen == 6

BlockChars == {"{", "}", "a"}

InitBlock ==
  /\ decls = Unused /\ layout = Unused /\ stateNodes = Unused /\ stateEdges = Unused /\ layoutSignature = Unused
  /\ src \in SeqUpTo(BlockChars, MaxSrcLen)
  /\ openIdx \in 0..MaxSrcLen
  /\ openIdx < Len(src)
  /\ src[openIdx + 1] = "{"
  /\ pc = "call"
  /\ block = Unused
  /\ text = Unused /\ model = Unused /\ graph = Unused /\ console = <<>>
  /\ scanKind = Unused /\ lastIndex = 0 /\ items = <<>>

ExtractBlock ==
  /\ pc = "call"
  /\ block' = extractBlock(src, openIdx)
  /\ pc' = "extractBlock"
  /\ UNCHANGED <<stateNodes, stateEdges, layoutSignature, decls, layout, src, openIdx, text, model, graph, console, scanKind, lastIndex, items>>

ExtractBlockLegacy ==
  /\ pc = "call"
  /\ block' = extractBlockLegacy(src, openIdx)
  /\ pc' = "extractBlockLegacy"
  /\ UNCHANGED <<stateNodes, stateEdges, layoutSignature, decls, layout, src, openIdx, text, model, graph, console, scanKind, lastIndex, items>>

NextBlock == ExtractBlock \/ ExtractBlockLegacy

SpecBlock == InitBlock /\ [][NextBlock]_vars

\* Number of "{" minus number of "}" among the characters s[from..to] (0-based).
BraceBalance(s, from, to) ==
  Cardinality({i \in from..to : s[i + 1] = "{"})
    - Cardinality({i \in from..to : s[i + 1] = "}"})

\* The indexes at which the depth counted from the brace at open is back to 0.
ClosingIndexes(s, open) ==
  {j \in open..(Len(s) - 1) : BraceBalance(s, open, j) = 0}

\* The index of the brace matching the one at open (when there is one).
MatchingBrace(s, open) ==
  CHOOSE j \in ClosingIndexes(s, open) : \A k \in ClosingIndexes(s, open) : j <= k

\* C5: for an opening brace whose matching closing brace exists, extractBlock
\* returns the characters strictly between the two braces as body and the
\* index of the matching closing brace as end.
C5_ExtractBlockMatching ==
  (pc = "extractBlock" /\ ClosingIndexes(src, openIdx) # {}) =>
    LET close == MatchingBrace(src, openIdx) IN
    /\ block.end = close
    /\ src[close + 1] = "}"
    /\ block.body = [k \in 1..(close - openIdx - 1) |-> src[openIdx + 1 + k]]

\* C5 witness: a nested block (depth 2) has been extracted.
C5_Witness ==
  /\ pc = "extractBlock"
  /\ ClosingIndexes(src, openIdx) # {}
  /\ \E i \in (openIdx + 1)..(block.end - 1) : src[i + 1] = "{"
  /\ block.end < Len(src) - 1

\* C6: when the source ends before the depth returns to 0, every block
\* extractor of the repository returns an empty body and the length of the
\* source as end.
C6_UnclosedEmptyBody ==
  (pc \in {"extractBlock", "extractBlockLegacy"} /\ ClosingIndexes(src, openIdx) = {}) =>
    block = [body |-> <<>>, end |-> Len(src)]

(***************************************************************************)
(* Properties of parseDarTwin (SpecParse).                                 *)
(***************************************************************************)
\* The root header of a text is matched and the brace it ends with is never
\* closed.
RootUnclosed(s) ==
  LET match == Exec(headerRegexAt, s, 0)
  IN match.ok /\ ClosingIndexes(s, match.end - 1) = {}

\* The text after the brace of the root header, up to the end of the input.
RootBodyToEnd(s) == SliceFrom(s, Exec(headerRegexAt, s, 0).end)

\* The names of the systems of a text whose block is closed.
CompleteSystemNames(s) ==
  {sanitizeName(systemRegexAt(s, i).name) :
     i \in {j \in 0..(Len(s) - 1) :
              /\ systemRegexAt(s, j).ok
              /\ ClosingIndexes(s, systemRegexAt(s, j).end - 1) # {}}}

\* The names of the goals of a text that have no block or a closed one.
CompleteGoalNames(s) ==
  {sanitizeName(goalRegexAt(s, i).name) :
     i \in {j \in 0..(Len(s) - 1) :
              /\ goalRegexAt(s, j).ok
              /\ goalRegexAt(s, j).hasBlock =>
                   ClosingIndexes(s, goalRegexAt(s, j).end - 1) # {}}}

NamesOf(list) == {list[k].name : k \in DOMAIN list}

\* C7 as stated: for a text whose root block is never closed, the Model holds
\* every system, goal and allocation that is complete in the text between the
\* root's brace and the end of the input.
C7_TruncatedBodyParsed ==
  (pc = "parsed" /\ RootUnclosed(text)) =>
    /\ CompleteSystemNames(RootBodyToEnd(text)) \subseteq NamesOf(model.systems)
    /\ CompleteGoalNames(RootBodyToEnd(text)) \subseteq NamesOf(model.goals)
    /\ Range(parseAllocations(RootBodyToEnd(text))) \subseteq Range(model.allocations)

\* C7 amended: for a text whose root block is never closed, parseDarTwin
\* returns a Model that carries the name of the root header and nothing else:
\* no system, no goal, no allocation and no dartrans, whatever is complete in
\* the text before the end of the input.
C7_UnclosedRootEmptyBody ==
  (pc = "parsed" /\ RootUnclosed(text)) =>
    model = [type |-> "DarTwin",
             name |-> sanitizeName(Exec(headerRegexAt, text, 0).name),
             systems |-> <<>>, goals |-> <<>>, allocations |-> <<>>]

\* C7 witness: a text with an unclosed root block that holds a complete
\* system and a complete goal has been parsed.
C7_Witness ==
  /\ pc = "parsed"
  /\ RootUnclosed(text)
  /\ CompleteSystemNames(RootBodyToEnd(text)) # {}
  /\ CompleteGoalNames(RootBodyToEnd(text)) # {}

\* C8: for a text without a root header, parseDarTwin returns the empty
\* Model: type "DarTwin", name "", no system, no goal, no allocation and no
\* dartrans field.
C8_NoRootHeaderEmptyModel ==
  (pc = "parsed" /\ \A i \in 0..(Len(text) - 1) : ~headerRegexAt(text, i).ok) =>
    /\ DOMAIN model = {"type", "name", "systems", "goals", "allocations"}
    /\ model.type = "DarTwin"
    /\ model.name = <<>>
    /\ model.systems = <<>>
    /\ model.goals = <<>>
    /\ model.allocations = <<>>

\* C8 witness: a text without a root header that declares a system, a goal
\* or an allocation has been parsed.
C8_Witness ==
  /\ pc = "parsed"
  /\ \A i \in 0..(Len(text) - 1) : ~headerRegexAt(text, i).ok
  /\ parseTwinSystems(text) # <<>>
  /\ parseGoals(text) # <<>>

\* The body of the root block of a text with a root header.
RootBody(s) == BlockAfter(s, Exec(headerRegexAt, s, 0)).body

\* The body without the #dartrans block that match found in it: the text
\* before the header and the text after the end of the block.
WithoutBlock(body, match) ==
  IF ~match.ok THEN body
  ELSE Slice(body, 0, match.index) \o <<" ">> \o SliceFrom(body, BlockAfter(body, match).end + 1)

\* What is written directly in the root body: the body without its
\* #dartrans block.
DirectlyInRoot(body) == WithoutBlock(body, Exec(transRegexAt, body, 0))

\* The lists of m hold the declarations of the text direct and no others.
TopLevelListsOf(m, direct) ==
  /\ m.systems = parseTwinSystems(direct)
  /\ m.goals = parseGoals(direct)
  /\ m.allocations = parseAllocations(direct)

\* Every section found in the #dartrans block has its slice in m.
SlicesOf(m, sections) ==
  sections.defined =>
    /\ "dartrans" \in DOMAIN m
    /\ m.dartrans = sections.value

\* C28: the systems, goals and allocations of the Model are those written
\* directly in the root body; a declaration inside a #before, #core or
\* #after section of the #dartrans block is in the slice of its section
\* and not in the top-level lists.
C28_TopLevelListsExcludeSlices ==
  (pc = "parsed" /\ Exec(headerRegexAt, text, 0).ok) =>
    /\ TopLevelListsOf(model, DirectlyInRoot(RootBody(text)))
    /\ SlicesOf(model, parseDarTrans(RootBody(text)))

(***************************************************************************)
(* Properties of the scanning loops (SpecScan).                            *)
(***************************************************************************)
\* C9: every step of a scanning loop either pushes an item and moves the scan
\* position strictly forward, to at most one past the length of the scanned
\* text (the position after an unclosed block), or ends the loop; a loop
\* over a text of n characters therefore ends within n + 2 steps.
C9_ScanAdvancesOrEnds ==
  [][\/ /\ pc' = "scan"
        /\ lastIndex' > lastIndex
        /\ lastIndex' <= Len(text) + 1
        /\ Len(items') = Len(items) + 1
     \/ pc' = "done"]_vars

\* C9 witness: a loop has pushed an item for an unclosed block, whose
\* end is the length of the scanned text.
C9_Witness ==
  /\ pc = "scan"
  /\ items # <<>>
  /\ lastIndex = Len(text) + 1

\* The match of the pattern of a scanning loop at index i of s.
DeclAt(kind, s, i) ==
  CASE kind = "systems" -> systemRegexAt(s, i)
    [] kind = "digital_twins" -> dtRegexAt(s, i)
    [] kind = "original_twins" -> partRegexAt(s, i)
    [] kind = "ports" -> portRegexAt(s, i)
    [] kind = "connections" -> connectRegexAt(s, i)
    [] kind = "goals" -> goalRegexAt(s, i)
    [] kind = "allocations" -> allocRegexAt(s, i)

\* What identifies the declaration of a match, and the same for a list entry.
DeclKey(kind, match) ==
  CASE kind = "connections" -> <<Trim(match.from), Trim(match.to)>>
    [] kind = "allocations" -> <<Trim(match.goal), Trim(match.target)>>
    [] OTHER -> <<Trim(match.name)>>

ItemKey(kind, item) ==
  CASE kind = "connections" -> <<item.from, item.to>>
    [] kind = "allocations" -> <<item.goal, item.target>>
    [] kind = "ports" -> <<item>>
    [] OTHER -> <<item.name>>

\* C12: a scanning loop takes the declarations in the order of the text and
\* keeps the list in that order: every iteration finds the first declaration
\* at or after the scan position and puts its entry at the end of the list,
\* leaving the entries before it as they were; the loop ends only when no
\* declaration is left after the scan position.
C12_ListsInTextualOrder ==
  [][/\ pc' = "scan" =>
          \E i \in lastIndex..(Len(text) - 1) :
            /\ DeclAt(scanKind, text, i).ok
            /\ \A j \in lastIndex..(i - 1) : ~DeclAt(scanKind, text, j).ok
            /\ lastIndex' > i
            /\ Len(items') = Len(items) + 1
            /\ SubSeq(items', 1, Len(items)) = items
            /\ ItemKey(scanKind, items'[Len(items')])
                 = DeclKey(scanKind, DeclAt(scanKind, text, i))
     /\ pc' = "done" =>
          /\ items' = items
          /\ \A j \in lastIndex..(Len(text) - 1) : ~DeclAt(scanKind, text, j).ok]_vars

\* C12 witness: the ports q, p, q of a text are listed in that order, the
\* repeated one twice and the list not sorted.
C12_Witness ==
  /\ pc = "done"
  /\ scanKind = "ports"
  /\ items = <<N("q"), N("p"), N("q")>>

\* The loops whose declarations have a block.
BlockKinds == {"systems", "digital_twins", "original_twins", "goals"}

\* The index of the first declaration of the kind at or after from.
FirstDeclFrom(kind, s, from) ==
  Least({i \in from..(Len(s) - 1) : DeclAt(kind, s, i).ok})

\* The declaration of the match opens a block.
OpensBlock(kind, match) == kind # "goals" \/ match.hasBlock

\* lastIndex is after the block whose brace is at open: after its closing
\* brace, or past the end of the text when the block is not closed.
AfterBlock(s, open, index) ==
  IF ClosingIndexes(s, open) # {} THEN index = MatchingBrace(s, open) + 1
  ELSE index > Len(s)

\* The declarations of the kind whose header starts inside the block
\* opened at open.
NestedDecls(kind, s, open) ==
  {j \in (open + 1)..(Len(s) - 1) :
     /\ DeclAt(kind, s, j).ok
     /\ ClosingIndexes(s, open) # {} => j < MatchingBrace(s, open)}

\* C24: a loop that pushes a declaration with a block takes the first
\* header at or after its scan position and resumes strictly after the
\* closing brace of the block (past the end of the text for an unclosed
\* block), so every header nested in the block lies before the position of
\* every later search and is never pushed as a sibling.
C24_SiblingScanResumesAfterBlock ==
  [][(pc' = "scan" /\ scanKind \in BlockKinds
        /\ OpensBlock(scanKind, DeclAt(scanKind, text, FirstDeclFrom(scanKind, text, lastIndex))))
       => /\ AfterBlock(text,
                        DeclAt(scanKind, text, FirstDeclFrom(scanKind, text, lastIndex)).end - 1,
                        lastIndex')
          /\ lastIndex' > lastIndex
          /\ \A j \in NestedDecls(scanKind, text,
                                  DeclAt(scanKind, text,
                                         FirstDeclFrom(scanKind, text, lastIndex)).end - 1) :
               j < lastIndex']_vars

\* C24 witness: the loops have ended on bodies with a nested header of
\* each kind, which is not in the list, while the sibling after the block
\* is.
C24_Witness ==
  /\ pc = "done"
  /\ \/ scanKind = "systems" /\ text = NestedSystems /\ NamesOf(items) = {N("s"), N("q")}
     \/ scanKind = "goals" /\ text = NestedGoals /\ NamesOf(items) = {N("h"), N("k")}
     \/ scanKind = "original_twins" /\ text = NestedParts /\ NamesOf(items) = {N("o"), N("m")}

\* The indexes of s at which a connect statement starts.
ConnectStatementStarts(s) == {i \in 0..(Len(s) - 1) : connectRegexAt(s, i).ok}

\* C29: the loop of parseConnections pushes one Connection for every
\* connect statement of the body, also for statements that share a line:
\* when the loop has ended the list is as long as the statements are many.
C29_OneConnectionPerStatement ==
  (pc = "done" /\ scanKind = "connections") =>
    Len(items) = Cardinality(ConnectStatementStarts(text))

(***************************************************************************)
(* SpecConnect: parseConnections applied to connect statements, one per    *)
(* line, written from an optional inline name and a text after the ";".    *)
(* decls holds what each statement was written from.                       *)
(***************************************************************************)
MaxConnects == 2

ConnectEnds == <<"c","o","n","n","e","c","t"," ","d",".","p"," ","t","o"," ","o",".","q">>

\* The text between the second port and the ";" and the name it gives.
InlineParts ==
  { [text |-> <<>>, name |-> <<>>],
    [text |-> <<" ","n","a","m","e"," ","n">>, name |-> <<"n">>],
    [text |-> <<"\n","N","A","M","E"," "," ","n","-","1"," ">>, name |-> <<"n","-","1">>] }

\* The text after the ";" and the id of the "// name:" comment it holds on
\* the line of the ";" (<<>> without one).
TrailingParts ==
  { [text |-> <<>>, comment |-> <<>>],
    [text |-> <<" ","/","/"," ","n","a","m","e",":"," ","m">>, comment |-> <<"m">>],
    [text |-> <<"/","/","N","A","M","E",":","m","_","2"," ","e","t","c">>, comment |-> <<"m","_","2">>],
    [text |-> <<" ","/","/"," ","n","o","t","e">>, comment |-> <<>>],
    [text |-> <<" ","x"," ","/","/"," ","n","a","m","e",":"," ","m">>, comment |-> <<"m">>],
    [text |-> <<"\n","/","/"," ","n","a","m","e",":"," ","m">>, comment |-> <<>>] }

ConnectStatements == [inline : InlineParts, trailing : TrailingParts]

\* The line(s) of one statement.
StatementText(st) == ConnectEnds \o st.inline.text \o <<";">> \o st.trailing.text \o <<"\n">>

InitConnect ==
  /\ decls \in SeqUpTo(ConnectStatements, MaxConnects)
  /\ text = Concat([k \in DOMAIN decls |-> StatementText(decls[k])])
  /\ pc = "text"
  /\ items = <<>>
  /\ layout = Unused /\ stateNodes = Unused /\ stateEdges = Unused /\ layoutSignature = Unused /\ model = Unused /\ graph = Unused /\ console = <<>>
  /\ src = Unused /\ openIdx = 0 /\ block = Unused /\ scanKind = Unused /\ lastIndex = 0

ParseConnections ==
  /\ pc = "text"
  /\ items' = parseConnections(text)
  /\ pc' = "connections"
  /\ UNCHANGED <<stateNodes, stateEdges, layoutSignature, decls, layout, src, openIdx, block, text, model, graph, console,
                 scanKind, lastIndex>>

NextConnect == ParseConnections

SpecConnect == InitConnect /\ [][NextConnect]_vars

\* The Connection a statement stands for: the inline name when there is one,
\* else the id of the comment on the line of the ";", else no name.
ExpectedConnection(st) ==
  LET ends == [from |-> <<"d", ".", "p">>, to |-> <<"o", ".", "q">>]
      name == IF st.inline.name # <<>> THEN st.inline.name ELSE st.trailing.comment
  IN IF name = <<>> THEN ends
     ELSE [from |-> ends.from, to |-> ends.to, name |-> name]

\* C13: every connect statement yields a Connection whose name is the
\* inline name when one is given, otherwise the id of a "// name:" comment
\* after the ";" on the same line, otherwise absent.
C13_ConnectionNamePrecedence ==
  pc = "connections" =>
    /\ Len(items) = Len(decls)
    /\ \A k \in DOMAIN decls : items[k] = ExpectedConnection(decls[k])

\* C13 witness: a statement with an inline name and a comment name, and a
\* statement with a comment name only, have been parsed.
C13_Witness ==
  /\ pc = "connections"
  /\ \E j, k \in DOMAIN decls :
       /\ decls[j].inline.name # <<>> /\ decls[j].trailing.comment # <<>>
       /\ decls[k].inline.name = <<>> /\ decls[k].trailing.comment # <<>>
       /\ items[j].name = decls[j].inline.name
       /\ items[k].name = decls[k].trailing.comment

(***************************************************************************)
(* SpecDoc: parseGoals applied to one goal whose block carries a doc       *)
(* comment; decls holds the text between the comment marks.                *)
(***************************************************************************)
MaxDocLen == 4

DocChars == {"a", " ", "\t", "\n"}

GoalDocOpen == <<"#","g","o","a","l"," ","g"," ","{"," ","d","o","c"," ","/","*">>

GoalDocClose == <<"*","/"," ","}">>

InitDoc ==
  /\ decls \in SeqUpTo(DocChars, MaxDocLen)
  /\ text = GoalDocOpen \o decls \o GoalDocClose
  /\ pc = "text"
  /\ items = <<>>
  /\ layout = Unused /\ stateNodes = Unused /\ stateEdges = Unused /\ layoutSignature = Unused /\ model = Unused /\ graph = Unused /\ console = <<>>
  /\ src = Unused /\ openIdx = 0 /\ block = Unused /\ scanKind = Unused /\ lastIndex = 0

ParseGoals ==
  /\ pc = "text"
  /\ items' = parseGoals(text)
  /\ pc' = "goals"
  /\ UNCHANGED <<stateNodes, stateEdges, layoutSignature, decls, layout, src, openIdx, block, text, model, graph, console,
                 scanKind, lastIndex>>

NextDoc == ParseGoals

SpecDoc == InitDoc /\ [][NextDoc]_vars

\* No leading or trailing whitespace, no newline, no two whitespace
\* characters in a row.
SingleSpaced(doc) ==
  /\ doc # <<>> => doc[1] \notin Whitespace /\ doc[Len(doc)] \notin Whitespace
  /\ \A k \in DOMAIN doc : doc[k] # "\n"
  /\ \A k \in 1..(Len(doc) - 1) : ~(doc[k] \in Whitespace /\ doc[k + 1] \in Whitespace)

\* C14: the doc of every parsed goal has no leading or trailing whitespace,
\* no newline and no run of two or more whitespace characters.
C14_DocSingleSpaced ==
  pc = "goals" =>
    \A k \in DOMAIN items : "doc" \in DOMAIN items[k] => SingleSpaced(items[k].doc)

(***************************************************************************)
(* C15: the parentId relation of a built Graph.                            *)
(***************************************************************************)
\* The depth of a node type in the containment hierarchy.
TypeDepth(type) ==
  CASE type = "dartwin" -> 0
    [] type \in {"twinsystem", "goal"} -> 1
    [] type \in {"dt", "at"} -> 2
    [] type = "port" -> 3

\* The position in nodes of the last node before position k whose type is
\* in types: the node of the declaration that owns the one at k (0 if none).
OwnerAt(nodes, k, types) ==
  LET before == {j \in 1..(k - 1) : nodes[j].type \in types}
  IN IF before = {} THEN 0 ELSE CHOOSE j \in before : \A i \in before : i <= j

\* The types of the nodes that own a node of the given type.
OwnerTypes(type) ==
  CASE type \in {"twinsystem", "goal"} -> {"dartwin"}
    [] type \in {"dt", "at"} -> {"twinsystem"}
    [] type = "port" -> {"dt", "at"}
    [] OTHER -> {}

\* C15: the root is the only node without parentId; the parent of a system
\* or goal is the root, of a twin its owning system, of a port its owning
\* twin; every parentId is the id of a node, and only of nodes one level up.
C15_ParentIdsFormTree ==
  pc = "built" =>
    LET nodes == graph.nodes
    IN /\ nodes[1].type = "dartwin"
       /\ \A k \in DOMAIN nodes :
            IF nodes[k].type = "dartwin"
              THEN k = 1 /\ "parentId" \notin DOMAIN nodes[k]
              ELSE /\ "parentId" \in DOMAIN nodes[k]
                   /\ OwnerAt(nodes, k, OwnerTypes(nodes[k].type)) > 0
                   /\ nodes[k].parentId =
                        nodes[OwnerAt(nodes, k, OwnerTypes(nodes[k].type))].id
                   /\ \A j \in DOMAIN nodes :
                        nodes[j].id = nodes[k].parentId =>
                          TypeDepth(nodes[j].type) = TypeDepth(nodes[k].type) - 1

\* C15 witness: a graph with a port under a digital twin, a port under an
\* original twin, two systems and a goal has been built.
C15_Witness ==
  /\ pc = "built"
  /\ Len(model.systems) = 2
  /\ \E k \in DOMAIN graph.nodes : graph.nodes[k].type = "goal"
  /\ \E k, j \in DOMAIN graph.nodes :
       /\ graph.nodes[k].type = "port" /\ graph.nodes[j].type = "port"
       /\ graph.nodes[OwnerAt(graph.nodes, k, {"dt", "at"})].type = "dt"
       /\ graph.nodes[OwnerAt(graph.nodes, j, {"dt", "at"})].type = "at"

\* C16: no two edges of a built Graph have the same id.
C16_EdgeIdsUnique ==
  pc = "built" =>
    \A j, k \in DOMAIN graph.edges : graph.edges[j].id = graph.edges[k].id => j = k

(***************************************************************************)
(* The layout engine (computeLayout).  Every halved quantity of the code   *)
(* is an even number, so \div 2 is the exact quotient.                     *)
(***************************************************************************)
CANVAS_MARGIN_X == 120
GOAL_ROW_Y == 60
GOAL_WIDTH == 240
GOAL_HEIGHT == 120
GOAL_HORIZONTAL_GAP == 80
TWIN_ROW_Y == 240
TWIN_WIDTH == 520
TWIN_HEIGHT == 340
TWIN_HORIZONTAL_GAP == 160
DT_WIDTH == 320
DT_HEIGHT == 160
DT_GAP == 60
PORT_WIDTH == 120
PORT_HEIGHT == 56
SENSOR_GAP == 70
SENSOR_CHAIN_GAP == 80
SENSOR_STACK_GAP == 28
ACTUATOR_VERTICAL_GAP == 70
ACTUATOR_CHAIN_GAP == 90
ACTUATOR_HORIZONTAL_GAP == 48
SIDE_PORT_GAP == 100
SIDE_PORT_STACK_GAP == 36
TWIN_TOP_PADDING == 40
TWIN_SIDE_GAP == 120

\* nodes.filter((node) => node.parentId === parentId)
groupByParent(nodes, parentId) ==
  SelectSeq(nodes, LAMBDA node : "parentId" \in DOMAIN node /\ node.parentId = parentId)

\* The order of characters under localeCompare: punctuation, digits, then
\* letters, a letter's two cases together.
CollationOrder ==
  <<"_", "-", "0", "1", "2", "3", "4", "5", "6", "7", "8", "9">> \o LowerLetters

\* The weight of each character: its place in CollationOrder.
CollationWeight ==
  [c \in Range(CollationOrder) \cup Range(UpperLetters) |->
     CHOOSE k \in DOMAIN CollationOrder : CollationOrder[k] = Lower(c)]

CharWeight(c) == CollationWeight[c]

\* a.localeCompare(b) for strings over CollationOrder: negative, zero or
\* positive.  The first difference of weight decides, then the length,
\* then the first difference of case, the lower case first.
localeCompare(a, b) ==
  LET shared == 1..(IF Len(a) < Len(b) THEN Len(a) ELSE Len(b))
      caseDiffs == {k \in shared : a[k] # b[k]}
      weightDiffs == {k \in caseDiffs : CharWeight(a[k]) # CharWeight(b[k])}
  IN IF weightDiffs # {}
       THEN CharWeight(a[Least(weightDiffs)]) - CharWeight(b[Least(weightDiffs)])
     ELSE IF Len(a) # Len(b) THEN Len(a) - Len(b)
     ELSE IF caseDiffs = {} THEN 0
     ELSE IF a[Least(caseDiffs)] = Lower(a[Least(caseDiffs)]) THEN 0 - 1 ELSE 1

byLabel(a, b) == localeCompare(a.label, b.label)

\* The number of elements that a stable sort by label puts before nodes[k].
SortRank(nodes, k) ==
  Cardinality({j \in DOMAIN nodes :
                 IF j < k THEN byLabel(nodes[j], nodes[k]) <= 0
                 ELSE byLabel(nodes[j], nodes[k]) < 0})

\* nodes.sort(byLabel); Array.prototype.sort is stable.
sortByLabel(nodes) ==
  LET rank == [k \in DOMAIN nodes |-> SortRank(nodes, k)]
  IN [r \in DOMAIN nodes |-> nodes[CHOOSE k \in DOMAIN nodes : rank[k] = r - 1]]

\* /lit/i.test(s)
TestLit(s, lit) == \E i \in 0..Len(s) : MatchLit(s, i, lit)

\* /sensor|input/i.test(node.label)
isSensorPort(node) ==
  TestLit(node.label, <<"s","e","n","s","o","r">>) \/ TestLit(node.label, <<"i","n","p","u","t">>)

\* /actuator|output/i.test(node.label)
isActuatorPort(node) ==
  TestLit(node.label, <<"a","c","t","u","a","t","o","r">>) \/ TestLit(node.label, <<"o","u","t","p","u","t">>)

\* ports.filter(isSensorPort)
sensorPortsOf(ports) == SelectSeq(ports, isSensorPort)

\* ports.filter(isActuatorPort)
actuatorPortsOf(ports) == SelectSeq(ports, isActuatorPort)

\* The ports that are in neither of the two filtered lists.
remainingPortsOf(ports) ==
  SelectSeq(ports, LAMBDA port : ~isSensorPort(port) /\ ~isActuatorPort(port))

\* NODE_DIMENSIONS[type]
NODE_DIMENSIONS(type) ==
  CASE type = "goal" -> [defined |-> TRUE, width |-> GOAL_WIDTH, height |-> GOAL_HEIGHT]
    [] type = "twinsystem" -> [defined |-> TRUE, width |-> TWIN_WIDTH, height |-> TWIN_HEIGHT]
    [] type = "dt" -> [defined |-> TRUE, width |-> DT_WIDTH, height |-> DT_HEIGHT]
    [] type = "port" -> [defined |-> TRUE, width |-> PORT_WIDTH, height |-> PORT_HEIGHT]
    [] OTHER -> [defined |-> FALSE]

\* Math.max(0, n)
Max0(n) == IF n > 0 THEN n ELSE 0

\* The PositionMap is kept as the sequence of its assignments, each
\* [id, position]: the last assignment to an id is the value of the id.
NoPositions == <<>>

\* id in positions
HasPosition(positions, id) == \E k \in DOMAIN positions : positions[k].id = id

\* positions[id]
PositionOf(positions, id) ==
  LET writes == {k \in DOMAIN positions : positions[k].id = id}
  IN positions[CHOOSE k \in writes : \A j \in writes : j <= k].position

\* list.forEach((node, index) => positions[node.id] = { x: x0 + index * dx,
\* y: y0 + index * dy }): the assignments of the loop.
PlaceRow(list, x0, dx, y0, dy) ==
  [k \in DOMAIN list |->
     [id |-> list[k].id, position |-> [x |-> x0 + (k - 1) * dx, y |-> y0 + (k - 1) * dy]]]

setGoalPositions(goals, positions) ==
  positions \o PlaceRow(sortByLabel(goals),
                        CANVAS_MARGIN_X, GOAL_WIDTH + GOAL_HORIZONTAL_GAP, GOAL_ROW_Y, 0)

\* dtX of layoutDigitalTwin
DtX(twinPosition, dtIndex, dtCount) ==
  twinPosition.x + (TWIN_WIDTH - (dtCount * DT_WIDTH + Max0(dtCount - 1) * DT_GAP)) \div 2
    + dtIndex * (DT_WIDTH + DT_GAP)

\* dtY of layoutDigitalTwin
DtY(twinPosition) == twinPosition.y + (TWIN_HEIGHT - DT_HEIGHT) \div 2

\* The width of a row of count actuator ports.
ActuatorRowWidth(count) == count * PORT_WIDTH + Max0(count - 1) * ACTUATOR_HORIZONTAL_GAP

\* The DigitalTwinAnchors that layoutDigitalTwin returns.
DigitalTwinAnchors(dtX, dtY, actuatorCount) ==
  [defined |-> TRUE,
   sensorBaseX |-> dtX + DT_WIDTH + SENSOR_GAP,
   sensorY |-> dtY + DT_HEIGHT \div 2 - PORT_HEIGHT \div 2,
   actuatorStartX |-> IF actuatorCount > 0
                        THEN dtX + (DT_WIDTH - ActuatorRowWidth(actuatorCount)) \div 2
                        ELSE dtX + (DT_WIDTH - PORT_WIDTH) \div 2,
   actuatorY |-> dtY + DT_HEIGHT + ACTUATOR_VERTICAL_GAP,
   actuatorCount |-> actuatorCount]

\* The unclassified ports of a digital twin, stacked to its left.
PlaceDigitalTwinRemaining(dtX, dtY, remainingPorts) ==
  PlaceRow(remainingPorts,
           dtX - SIDE_PORT_GAP - PORT_WIDTH, 0,
           dtY + (DT_HEIGHT - (Len(remainingPorts) * PORT_HEIGHT
                               + Max0(Len(remainingPorts) - 1) * SIDE_PORT_STACK_GAP)) \div 2,
           PORT_HEIGHT + SIDE_PORT_STACK_GAP)

\* The assignments of layoutDigitalTwin: the twin, its sensor ports, its
\* actuator ports, its remaining ports, in this order.
PlaceDigitalTwin(dt, dtX, dtY, dtPorts, anchors) ==
  <<[id |-> dt.id, position |-> [x |-> dtX, y |-> dtY]]>>
    \o PlaceRow(sensorPortsOf(dtPorts),
                anchors.sensorBaseX, PORT_WIDTH + SENSOR_STACK_GAP, anchors.sensorY, 0)
    \o PlaceRow(actuatorPortsOf(dtPorts),
                anchors.actuatorStartX, PORT_WIDTH + ACTUATOR_HORIZONTAL_GAP,
                anchors.actuatorY, 0)
    \o PlaceDigitalTwinRemaining(dtX, dtY, remainingPortsOf(dtPorts))

\* layoutDigitalTwin for a twin at (dtX, dtY) with the sorted ports dtPorts.
LayoutDigitalTwinAt(positions, dt, dtX, dtY, dtPorts, anchors) ==
  [positions |-> positions \o PlaceDigitalTwin(dt, dtX, dtY, dtPorts, anchors),
   anchors |-> anchors]

LayoutDigitalTwinPorts(positions, dt, dtX, dtY, dtPorts) ==
  LayoutDigitalTwinAt(positions, dt, dtX, dtY, dtPorts,
                      DigitalTwinAnchors(dtX, dtY, Len(actuatorPortsOf(dtPorts))))

\* [positions, anchors]: positions after the call, and the value returned.
layoutDigitalTwin(twinPosition, dt, dtIndex, dtCount, allPorts, positions) ==
  LayoutDigitalTwinPorts(positions, dt, DtX(twinPosition, dtIndex, dtCount), DtY(twinPosition),
                         sortByLabel(groupByParent(allPorts, dt.id)))

twinDefaultSensorX(twinPosition) == twinPosition.x + TWIN_WIDTH + SENSOR_GAP

\* An anchors argument that is undefined.
NoAnchors == [defined |-> FALSE]

\* baseSensorX, baseSensorY, baseActuatorStartX and actuatorY of
\* layoutTwinPorts for a twin with actuatorCount actuator ports.
TwinPortBases(twinPosition, anchors, actuatorCount) ==
  [sensorX |-> IF anchors.defined
                 THEN anchors.sensorBaseX + PORT_WIDTH + SENSOR_CHAIN_GAP
                 ELSE twinDefaultSensorX(twinPosition),
   sensorY |-> IF anchors.defined
                 THEN anchors.sensorY
                 ELSE twinPosition.y + TWIN_HEIGHT \div 2 - PORT_HEIGHT \div 2,
   actuatorStartX |->
     IF anchors.defined /\ actuatorCount = anchors.actuatorCount
       THEN anchors.actuatorStartX
     ELSE IF actuatorCount > 0
       THEN twinPosition.x + (TWIN_WIDTH - ActuatorRowWidth(actuatorCount)) \div 2
     ELSE twinPosition.x + (TWIN_WIDTH - PORT_WIDTH) \div 2,
   actuatorY |-> (IF anchors.defined THEN anchors.actuatorY
                  ELSE twinPosition.y + TWIN_HEIGHT \div 2)
                 + PORT_HEIGHT + ACTUATOR_CHAIN_GAP]

\* The assignments of layoutTwinPorts: sensor ports, actuator ports,
\* remaining ports, in this order.
PlaceTwinPorts(twinPosition, twinPorts, bases) ==
  PlaceRow(sensorPortsOf(twinPorts),
           bases.sensorX, PORT_WIDTH + SENSOR_STACK_GAP, bases.sensorY, 0)
    \o PlaceRow(actuatorPortsOf(twinPorts),
                bases.actuatorStartX, PORT_WIDTH + ACTUATOR_HORIZONTAL_GAP, bases.actuatorY, 0)
    \o PlaceRow(remainingPortsOf(twinPorts),
                twinPosition.x - TWIN_SIDE_GAP - PORT_WIDTH, 0,
                twinPosition.y + TWIN_TOP_PADDING, PORT_HEIGHT + SIDE_PORT_STACK_GAP)

\* positions[twin.id] ?? { x: CANVAS_MARGIN_X, y: TWIN_ROW_Y }
TwinPositionOf(positions, twin) ==
  IF HasPosition(positions, twin.id) THEN PositionOf(positions, twin.id)
  ELSE [x |-> CANVAS_MARGIN_X, y |-> TWIN_ROW_Y]

\* layoutTwinPorts for a twin at twinPosition with the sorted ports twinPorts.
LayoutTwinPortsAt(positions, twinPosition, twinPorts, anchors) ==
  positions \o PlaceTwinPorts(twinPosition, twinPorts,
                              TwinPortBases(twinPosition, anchors,
                                            Len(actuatorPortsOf(twinPorts))))

layoutTwinPorts(twin, allPorts, anchors, positions) ==
  LayoutTwinPortsAt(positions, TwinPositionOf(positions, twin),
                    sortByLabel(groupByParent(allPorts, twin.id)), anchors)

\* twinDigitalTwins.map(layoutDigitalTwin): the assignments of the calls,
\* none of which reads positions.
LayoutDigitalTwins(twinPosition, twinDigitalTwins, ports) ==
  Concat([k \in DOMAIN twinDigitalTwins |->
            layoutDigitalTwin(twinPosition, twinDigitalTwins[k], k - 1, Len(twinDigitalTwins),
                              ports, NoPositions).positions])

\* anchors[0]
PrimaryAnchor(twinPosition, twinDigitalTwins, ports) ==
  IF twinDigitalTwins = <<>> THEN NoAnchors
  ELSE layoutDigitalTwin(twinPosition, twinDigitalTwins[1], 0, Len(twinDigitalTwins),
                         ports, NoPositions).anchors

\* The callback of twins.forEach in setTwinHierarchyPositions, for the
\* twin system at twinPosition with digital twins twinDigitalTwins.
LayoutTwinAt(twin, twinPosition, twinDigitalTwins, ports, positions) ==
  layoutTwinPorts(twin, ports, PrimaryAnchor(twinPosition, twinDigitalTwins, ports),
                  positions \o <<[id |-> twin.id, position |-> twinPosition]>>
                    \o LayoutDigitalTwins(twinPosition, twinDigitalTwins, ports))

LayoutTwin(twin, twinIndex, dts, ports, positions) ==
  LayoutTwinAt(twin,
               [x |-> CANVAS_MARGIN_X + twinIndex * (TWIN_WIDTH + TWIN_HORIZONTAL_GAP),
                y |-> TWIN_ROW_Y],
               sortByLabel(groupByParent(dts, twin.id)), ports, positions)

RECURSIVE LayoutTwinsFrom(_, _, _, _, _)
LayoutTwinsFrom(twins, k, dts, ports, positions) ==
  IF k > Len(twins) THEN positions
  ELSE LayoutTwinsFrom(twins, k + 1, dts, ports,
                       LayoutTwin(twins[k], k - 1, dts, ports, positions))

setTwinHierarchyPositions(twins, allNodes, positions) ==
  LayoutTwinsFrom(sortByLabel(twins), 1,
                  SelectSeq(allNodes, LAMBDA node : node.type = "dt"),
                  SelectSeq(allNodes, LAMBDA node : node.type = "port"),
                  positions)

\* A grid of one column.
fallbackPositionOneColumn(index) ==
  [x |-> 120, y |-> 160 + (index \div 4) * 140]

fallbackPosition(index) ==
  [x |-> 120 + (index % 4) * 140, y |-> 160 + (index \div 4) * 140]

\* positions[node.id] ?? fallbackPosition(index)
AbsolutePosition(node, index, positions) ==
  IF HasPosition(positions, node.id) THEN PositionOf(positions, node.id)
  ELSE fallbackPosition(index)

\* node.parentId && positions[node.parentId]
HasPlacedParent(node, positions) ==
  "parentId" \in DOMAIN node /\ node.parentId # <<>> /\ HasPosition(positions, node.parentId)

\* The position of buildNode: abs, or abs minus the parent's position.
NodePosition(node, abs, positions) ==
  IF HasPlacedParent(node, positions)
    THEN [x |-> abs.x - PositionOf(positions, node.parentId).x,
          y |-> abs.y - PositionOf(positions, node.parentId).y]
    ELSE abs

\* The type that the switch of buildNode gives the node.
RenderedType(type) == IF type \in {"goal", "twinsystem", "dt", "port"} THEN type ELSE "dartwin"

\* The node of buildNode without its formatted label: id, position, type,
\* data.kind and, when defined, parentNode, style and the data.doc of a
\* goal.
buildNode(node, index, positions) ==
  [id |-> node.id,
   position |-> NodePosition(node, AbsolutePosition(node, index, positions), positions),
   type |-> RenderedType(node.type),
   kind |-> node.type]
  @@ (IF "parentId" \in DOMAIN node THEN [parentNode |-> node.parentId] ELSE EmptyMap)
  @@ (IF node.type = "goal" /\ "doc" \in DOMAIN node THEN [doc |-> node.doc] ELSE EmptyMap)
  @@ (IF NODE_DIMENSIONS(node.type).defined
        THEN [style |-> [width |-> NODE_DIMENSIONS(node.type).width,
                         height |-> NODE_DIMENSIONS(node.type).height]]
        ELSE EmptyMap)

\* The edge of buildEdge without its constant style: the fields of the
\* input edge and the dash pattern of an allocate edge.
buildEdge(edge) ==
  IF "label" \in DOMAIN edge /\ edge.label = <<"a","l","l","o","c","a","t","e">>
    THEN edge @@ [strokeDasharray |-> "6 4"]
    ELSE edge

\* positions when computeLayout starts to build nodes.
LayoutPositions(parsed) ==
  setTwinHierarchyPositions(SelectSeq(parsed.nodes, LAMBDA n : n.type = "twinsystem"),
                            parsed.nodes,
                            setGoalPositions(SelectSeq(parsed.nodes, LAMBDA n : n.type = "goal"),
                                             NoPositions))

BuildNodes(nodes, positions) ==
  [k \in DOMAIN nodes |-> buildNode(nodes[k], k - 1, positions)]

computeLayout(parsed) ==
  [nodes |-> BuildNodes(parsed.nodes, LayoutPositions(parsed)),
   edges |-> [k \in DOMAIN parsed.edges |-> buildEdge(parsed.edges[k])]]

(***************************************************************************)
(* The node parser (parseDarTwin of src/src/parser/parseDarTwin.ts), the   *)
(* other producer of the input of computeLayout.  It is given by what it   *)
(* returns for the document that declares the systems, twins, ports and    *)
(* goals of a Model m with one-word names and has no connect or allocate   *)
(* statement: the ports of a part are nodes under the twin system.         *)
(***************************************************************************)
NodeParserRootId(m) == <<"d","a","r","t","w","i","n","_">> \o m.name

NodeParserPorts(prefix, parentId, ports) ==
  [k \in DOMAIN ports |->
     [id |-> prefix \o <<"_","p","o","r","t","_">> \o ports[k], type |-> "port", label |-> ports[k],
      parentId |-> parentId]]

NodeParserDigitalTwin(twinId, dt) ==
  <<[id |-> twinId \o <<"_","d","t","_">> \o dt.name, type |-> "dt", label |-> dt.name,
     parentId |-> twinId]>>
    \o NodeParserPorts(twinId \o <<"_","d","t","_">> \o dt.name,
                       twinId \o <<"_","d","t","_">> \o dt.name, dt.ports)

NodeParserPart(twinId, part) ==
  NodeParserPorts(twinId \o <<"_","p","a","r","t","_">> \o part.name, twinId, part.ports)

NodeParserSystemAt(m, twinId, system) ==
  <<[id |-> twinId, type |-> "twinsystem", label |-> system.name,
     parentId |-> NodeParserRootId(m)]>>
    \o Concat([k \in DOMAIN system.digital_twins |->
                 NodeParserDigitalTwin(twinId, system.digital_twins[k])])
    \o Concat([k \in DOMAIN system.original_twins |->
                 NodeParserPart(twinId, system.original_twins[k])])

NodeParserSystem(m, system) ==
  NodeParserSystemAt(m, NodeParserRootId(m) \o <<"_","t","w","i","n","s","y","s","t","e","m","_">> \o system.name, system)

NodeParserGoal(m, goal) ==
  [id |-> NodeParserRootId(m) \o <<"_","g","o","a","l","_">> \o goal.name, type |-> "goal",
   label |-> goal.name, parentId |-> NodeParserRootId(m)]

parseDarTwinNodes(m) ==
  [nodes |-> <<[id |-> NodeParserRootId(m), type |-> "dartwin", label |-> m.name]>>
               \o Concat([k \in DOMAIN m.systems |-> NodeParserSystem(m, m.systems[k])])
               \o [k \in DOMAIN m.goals |-> NodeParserGoal(m, m.goals[k])],
   edges |-> <<>>]

(***************************************************************************)
(* SpecLayout: computeLayout applied to the Graph of the builder (the      *)
(* pipeline of the application) and to the Graph of the node parser, for   *)
(* documents of up to MaxLayoutSystems systems whose ports carry the role  *)
(* words of the layout.  decls tells which parser has read the document.   *)
(***************************************************************************)
MaxLayoutSystems == 2

SensorInput == <<"s","e","n","s","o","r","_","i","n","p","u","t">>

ActuatorOutputX == <<"a","c","t","u","a","t","o","r","_","o","u","t","p","u","t","_","x">>

ActuatorOutputY == <<"a","c","t","u","a","t","o","r","_","o","u","t","p","u","t","_","y">>

\* The twins of a system: a digital twin with a port of each role and a
\* part; two digital twins; a part alone.
LayoutTwins ==
  { [digital_twins |->
       <<[name |-> N("t"),
          ports |-> <<SensorInput, ActuatorOutputY, ActuatorOutputX, N("p")>>]>>,
     original_twins |->
       <<[name |-> N("o"), ports |-> <<SensorInput, ActuatorOutputX, N("q")>>]>>],
    [digital_twins |->
       <<[name |-> N("u"), ports |-> <<N("q")>>],
         [name |-> N("t"), ports |-> <<SensorInput, ActuatorOutputX, ActuatorOutputY>>]>>,
     original_twins |-> <<>>],
    [digital_twins |-> <<>>,
     original_twins |->
       <<[name |-> N("o"), ports |-> <<SensorInput, ActuatorOutputX, N("q")>>]>>] }

LayoutSystems ==
  { [name |-> name, digital_twins |-> twins.digital_twins,
     original_twins |-> twins.original_twins, connections |-> <<>>]
    : name \in SystemNames, twins \in LayoutTwins }

LayoutGoalsAndAllocations ==
  { [goals |-> <<>>, allocations |-> <<>>],
    [goals |-> <<[name |-> N("g")]>>,
     allocations |-> <<[goal |-> N("g"), target |-> Ref2("s", "t")]>>],
    [goals |-> <<[name |-> N("h")], [name |-> N("g")]>>, allocations |-> <<>>] }

LayoutModels ==
  { [type |-> "DarTwin", name |-> N("a"), systems |-> ss,
     goals |-> ga.goals, allocations |-> ga.allocations]
    : ss \in SeqUpTo(LayoutSystems, MaxLayoutSystems), ga \in LayoutGoalsAndAllocations }

InitLayout ==
  /\ \/ /\ decls = "model parser"
        /\ model \in LayoutModels
        /\ graph = Unused
        /\ pc = "parsed"
     \/ /\ decls = "node parser"
        /\ model = Unused
        /\ \E m \in LayoutModels : m.allocations = <<>> /\ graph = parseDarTwinNodes(m)
        /\ pc = "built"
  /\ layout = Unused /\ stateNodes = Unused /\ stateEdges = Unused /\ layoutSignature = Unused
  /\ console = <<>> /\ items = <<>>
  /\ src = Unused /\ openIdx = 0 /\ block = Unused /\ text = Unused
  /\ scanKind = Unused /\ lastIndex = 0

ComputeLayout ==
  /\ pc = "built"
  /\ layout' = computeLayout(graph)
  /\ pc' = "laid"
  /\ UNCHANGED <<stateNodes, stateEdges, layoutSignature, decls, src, openIdx, block, text, model, graph, console,
                 scanKind, lastIndex, items>>

NextLayout == DarTwinToReactFlow \/ ComputeLayout

SpecLayout == InitLayout /\ [][NextLayout]_vars

(***************************************************************************)
(* Claims about the layout.  The node at position k of layout.nodes is     *)
(* the one built from the node at position k of graph.nodes.               *)
(***************************************************************************)
\* The sides of the rectangle of its digital twin that a port with the
\* parent-relative position p lies beyond.
PortSides(p) ==
  {side \in {"right", "left", "below", "above"} :
     \/ side = "right" /\ p.x >= DT_WIDTH
     \/ side = "left" /\ p.x + PORT_WIDTH <= 0
     \/ side = "below" /\ p.y >= DT_HEIGHT
     \/ side = "above" /\ p.y + PORT_HEIGHT <= 0}

OppositeSide(side) ==
  CASE side = "right" -> "left"
    [] side = "left" -> "right"
    [] side = "below" -> "above"
    [] side = "above" -> "below"

\* The positions in g.nodes of the ports whose parent is the node at d.
PortsUnder(g, d) ==
  {k \in DOMAIN g.nodes :
     /\ g.nodes[k].type = "port"
     /\ g.nodes[k].parentId = g.nodes[d].id}

\* C17: for every digital twin, a sensor-like port and an actuator-like
\* port of the twin lie beyond opposite sides of the twin's rectangle.
C17_SensorOppositeActuators ==
  pc = "laid" =>
    \A d \in NodesOfType(graph, "dt") :
      \A i, j \in PortsUnder(graph, d) :
        (/\ isSensorPort(graph.nodes[i]) /\ ~isActuatorPort(graph.nodes[i])
         /\ isActuatorPort(graph.nodes[j]) /\ ~isSensorPort(graph.nodes[j]))
        => \E side \in PortSides(layout.nodes[i].position) :
             OppositeSide(side) \in PortSides(layout.nodes[j].position)

\* The positions in g.nodes of the ports of original twins.
OriginalTwinPorts(g) ==
  {k \in DOMAIN g.nodes :
     /\ g.nodes[k].type = "port"
     /\ OwnerAt(g.nodes, k, {"dt", "at"}) > 0
     /\ g.nodes[OwnerAt(g.nodes, k, {"dt", "at"})].type = "at"}

\* Every port of an original twin of g has an assignment in positions.
OriginalTwinPortsPlaced(g, positions) ==
  \A k \in OriginalTwinPorts(g) : HasPosition(positions, g.nodes[k].id)

\* C18: in the pipeline of the builder and the layout, every port of an
\* original twin is placed by a rule of the layout and not by the
\* fallback grid.
C18_OriginalTwinPortsPlacedByRule ==
  (pc = "laid" /\ decls = "model parser") => OriginalTwinPortsPlaced(graph, LayoutPositions(graph))

\* The absolute position of the node at k of g: positions[id] ?? the grid.
AbsoluteAt(g, k, positions) == AbsolutePosition(g.nodes[k], k - 1, positions)

\* The position in g.nodes of the first node with the given id.
FirstWithId(g, id) == Least({j \in DOMAIN g.nodes : g.nodes[j].id = id})

\* The difference of two positions.
Minus(p, q) == [x |-> p.x - q.x, y |-> p.y - q.y]

\* Every node of l carries its absolute position, minus that of its parent
\* when it has a parentId.
RelativeToParent(g, l, positions) ==
  \A k \in DOMAIN g.nodes :
    IF "parentId" \in DOMAIN g.nodes[k]
      THEN l.nodes[k].position =
             Minus(AbsoluteAt(g, k, positions),
                   AbsoluteAt(g, FirstWithId(g, g.nodes[k].parentId), positions))
      ELSE l.nodes[k].position = AbsoluteAt(g, k, positions)

\* C19: every node with a parentId carries its absolute position minus the
\* absolute position of its parent; every other node carries its absolute
\* position.
C19_PositionsRelativeToParent ==
  pc = "laid" => RelativeToParent(graph, layout, LayoutPositions(graph))

\* The positions in g.nodes of the nodes that no placement rule covers.
FallbackPlaced(g, positions) ==
  {k \in DOMAIN g.nodes : ~HasPosition(positions, g.nodes[k].id)}

\* The grid position of index i.
GridPosition(i) == [x |-> 120 + (i % 4) * 140, y |-> 160 + (i \div 4) * 140]

\* The position that a placement rule gave the parent of node, or the
\* origin when the node has no parent or its parent has no such position.
PlacedParentPosition(node, positions) ==
  IF HasPlacedParent(node, positions) THEN PositionOf(positions, node.parentId)
  ELSE [x |-> 0, y |-> 0]

\* C20 as stated: every node that no placement rule covers carries the
\* grid position of its index.
C20_FallbackNodesCarryGridPosition ==
  pc = "laid" =>
    \A k \in FallbackPlaced(graph, LayoutPositions(graph)) :
      layout.nodes[k].position = GridPosition(k - 1)

\* l has one node per node of g, with its id and a position; the nodes in
\* fallback carry the grid position of their index, relative to a placed
\* parent, and no two of them the same position.
EveryNodePositioned(g, l, fallback, positions) ==
  /\ Len(l.nodes) = Len(g.nodes)
  /\ \A k \in DOMAIN g.nodes :
       /\ l.nodes[k].id = g.nodes[k].id
       /\ l.nodes[k].position.x \in Int
       /\ l.nodes[k].position.y \in Int
  /\ \A k \in fallback :
       l.nodes[k].position =
         Minus(GridPosition(k - 1), PlacedParentPosition(g.nodes[k], positions))
  /\ \A j, k \in fallback : j # k => l.nodes[j].position # l.nodes[k].position

\* C20: the output has one node per input node, with the same ids in the
\* same order and a position each; the absolute position of a node that no
\* placement rule covers is the grid position of its index, carried
\* relative to the parent when a rule placed the parent; two such nodes
\* never have the same position.
C20_EveryNodePositioned ==
  pc = "laid" =>
    EveryNodePositioned(graph, layout, FallbackPlaced(graph, LayoutPositions(graph)),
                        LayoutPositions(graph))

\* An original twin and two ports at indexes of different grid rows are
\* in fallback, the twin not at the grid position of its index.
FallbackCase(g, l, fallback) ==
  \E a, j, k \in fallback :
    /\ g.nodes[a].type = "at"
    /\ g.nodes[j].type = "port" /\ g.nodes[k].type = "port"
    /\ (j - 1) \div 4 # (k - 1) \div 4
    /\ l.nodes[a].position # GridPosition(a - 1)

\* C20 witness: a layout of a builder graph in which an original twin and
\* two of its ports, at indexes of different grid rows, were placed by the
\* fallback.
C20_Witness ==
  /\ pc = "laid"
  /\ decls = "model parser"
  /\ FallbackCase(graph, layout, FallbackPlaced(graph, LayoutPositions(graph)))

\* The positions in g.nodes of the digital twins whose parent is the node
\* at t.
DigitalTwinsUnder(g, t) ==
  {k \in DOMAIN g.nodes : g.nodes[k].type = "dt" /\ g.nodes[k].parentId = g.nodes[t].id}

\* The rectangle of a digital twin (320 x 160) at the parent-relative
\* position p lies inside the rectangle of its system (520 x 340).
InsideSystem(p) ==
  /\ p.x >= 0 /\ p.x + 320 <= 520
  /\ p.y >= 0 /\ p.y + 160 <= 340

\* The digital twins dts of l are in one row, a whole number of pitches
\* (320 + 60) apart, and centered as a group in the width of the system.
RowOfDigitalTwins(l, dts) ==
  /\ \A j, k \in dts :
       /\ l.nodes[j].position.y = l.nodes[k].position.y
       /\ (l.nodes[j].position.x - l.nodes[k].position.x) % 380 = 0
  /\ \A j, k \in dts :
       (\A i \in dts : /\ l.nodes[j].position.x <= l.nodes[i].position.x
                       /\ l.nodes[i].position.x <= l.nodes[k].position.x)
         => l.nodes[j].position.x + (l.nodes[k].position.x + 320) = 520

\* C26: the digital twins of every system are in a row, left to right at
\* a fixed gap and centered as a group, and the rectangle of each lies
\* entirely inside the rectangle of the system, for any number of them.
C26_DigitalTwinsInsideSystem ==
  pc = "laid" =>
    \A t \in NodesOfType(graph, "twinsystem") :
      /\ RowOfDigitalTwins(layout, DigitalTwinsUnder(graph, t))
      /\ \A k \in DigitalTwinsUnder(graph, t) : InsideSystem(layout.nodes[k].position)

(***************************************************************************)
(* SpecPipeline: computeLayout(darTwinToReactFlow(model)), the pipeline of *)
(* the application, for Models chosen by the part of the layout they       *)
(* exercise.  The first family is the goal row: the Models of up to        *)
(* MaxGoals goals, in every order and with repeated names.                 *)
(***************************************************************************)
MaxGoals == 3

GoalRowNames == {N("g"), N("h"), N("G")}

GoalRowModels ==
  { [type |-> "DarTwin", name |-> N("a"), systems |-> <<>>,
     goals |-> [k \in DOMAIN names |-> [name |-> names[k]]], allocations |-> <<>>]
    : names \in SeqUpTo(GoalRowNames, MaxGoals) }

\* The second family is the edges: a system whose connections carry no
\* name, a name, or the word of the allocate edges in either case, with
\* and without an allocation.
Allocate == <<"a","l","l","o","c","a","t","e">>

EdgeConnectionLists ==
  { <<>>,
    <<[from |-> Ref2("t", "p"), to |-> Ref2("o", "q")]>>,
    <<[from |-> Ref2("t", "p"), to |-> Ref2("o", "q"), name |-> N("n")]>>,
    <<[from |-> Ref2("t", "p"), to |-> Ref2("o", "q"), name |-> Allocate]>>,
    <<[from |-> Ref2("t", "p"), to |-> Ref2("o", "q"), name |-> <<"A">> \o Tail(Allocate)],
      [from |-> Ref2("o", "q"), to |-> Ref2("t", "p")]>> }

EdgeAllocationLists ==
  { <<>>,
    <<[goal |-> N("g"), target |-> Ref2("s", "t")]>>,
    <<[goal |-> N("g"), target |-> N("t")], [goal |-> N("g"), target |-> N("o")]>> }

EdgeStyleModels ==
  { [type |-> "DarTwin", name |-> N("a"),
     systems |-> <<[name |-> N("s"),
                    digital_twins |-> <<[name |-> N("t"), ports |-> <<N("p")>>]>>,
                    original_twins |-> <<[name |-> N("o"), ports |-> <<N("q")>>]>>,
                    connections |-> connections]>>,
     goals |-> <<[name |-> N("g")]>>, allocations |-> allocations]
    : connections \in EdgeConnectionLists, allocations \in EdgeAllocationLists }

\* The third family is the ports of a digital twin: up to MaxRolePorts
\* ports whose names carry the word of one role, of both roles or of none.
MaxRolePorts == 2

SensorOutput == <<"s","e","n","s","o","r","_","o","u","t","p","u","t">>

RolePortNames == {SensorInput, ActuatorOutputX, SensorOutput, N("p")}

PortRoleModels ==
  { [type |-> "DarTwin", name |-> N("a"),
     systems |-> <<[name |-> N("s"),
                    digital_twins |-> <<[name |-> N("t"), ports |-> ports]>>,
                    original_twins |-> <<>>, connections |-> <<>>]>>,
     goals |-> <<>>, allocations |-> <<>>]
    : ports \in SeqUpTo(RolePortNames, MaxRolePorts) }

PipelineModels == GoalRowModels \cup EdgeStyleModels \cup PortRoleModels

InitPipeline ==
  /\ decls = "model parser"
  /\ model \in PipelineModels
  /\ graph = Unused
  /\ pc = "parsed"
  /\ layout = Unused /\ stateNodes = Unused /\ stateEdges = Unused /\ layoutSignature = Unused
  /\ console = <<>> /\ items = <<>>
  /\ src = Unused /\ openIdx = 0 /\ block = Unused /\ text = Unused
  /\ scanKind = Unused /\ lastIndex = 0

NextPipeline == DarTwinToReactFlow \/ ComputeLayout

SpecPipeline == InitPipeline /\ [][NextPipeline]_vars

\* The number of goals of g that an ascending order of labels puts before
\* the goal at position k, goals of equal label in declaration order.
GoalRank(g, goals, k) ==
  Cardinality({j \in goals :
                 \/ byLabel(g.nodes[j], g.nodes[k]) < 0
                 \/ byLabel(g.nodes[j], g.nodes[k]) = 0 /\ j < k})

\* Every goal of l is in the row y = 60 at x = 120 + rank * 320.
GoalsInRankOrder(g, l, goals) ==
  \A k \in goals :
    l.nodes[k].position = [x |-> 120 + GoalRank(g, goals, k) * 320, y |-> 60]

\* No two goal rectangles of l, 240 wide in the same row, overlap.
GoalsApart(l, goals) ==
  \A j, k \in goals :
    j # k => \/ l.nodes[j].position.y # l.nodes[k].position.y
             \/ l.nodes[j].position.x + 240 <= l.nodes[k].position.x
             \/ l.nodes[k].position.x + 240 <= l.nodes[j].position.x

\* The permutations of 1..n.
OrdersOf(n) == {p \in [1..n -> 1..n] : \A i, j \in 1..n : i # j => p[i] # p[j]}

\* The Model m with its goals declared in the order p.
WithGoalOrder(m, p) == [m EXCEPT !.goals = [k \in DOMAIN m.goals |-> m.goals[p[k]]]]

\* The goals of m have pairwise distinct names, which are their labels.
DistinctGoalLabels(m) ==
  \A j, k \in DOMAIN m.goals : j # k => m.goals[j].name # m.goals[k].name

\* Every goal node of l has the position that the node of its id has in
\* the layout l2 of the same Model with its goals in another order.
SameGoalPositions(l, l2) ==
  \A j \in DOMAIN l.nodes : \A k \in DOMAIN l2.nodes :
    (l.nodes[j].kind = "goal" /\ l.nodes[j].id = l2.nodes[k].id)
      => l.nodes[j].position = l2.nodes[k].position

\* The layout of m does not depend on the order of its goals.
GoalOrderIrrelevant(m, l) ==
  DistinctGoalLabels(m) =>
    \A p \in OrdersOf(Len(m.goals)) :
      SameGoalPositions(l, computeLayout(darTwinToReactFlow(WithGoalOrder(m, p))))

\* C21: the goals are in one row (y = 60) at x = 120 + k * 320, k = 0..n-1
\* in ascending label order; no two goal rectangles overlap; for goals of
\* distinct labels the positions do not depend on the declaration order.
C21_GoalsInOneRowByLabel ==
  pc = "laid" =>
    /\ GoalsInRankOrder(graph, layout, NodesOfType(graph, "goal"))
    /\ GoalsApart(layout, NodesOfType(graph, "goal"))
    /\ GoalOrderIrrelevant(model, layout)

\* The edge was produced from an allocation: the builder gives the edges of
\* allocations, and no others, an id that starts with "allocation::".
FromAllocation(edge) ==
  StartsWith(edge.id, <<"a","l","l","o","c","a","t","i","o","n">> \o Sep)

\* The edge was produced from a connection: its id starts with "connect::".
FromConnection(edge) == StartsWith(edge.id, <<"c","o","n","n","e","c","t">> \o Sep)

\* The edge of the layout carries the dash pattern.
Dashed(edge) == "strokeDasharray" \in DOMAIN edge /\ edge.strokeDasharray = "6 4"

\* C22: an edge of the layout is dashed if and only if the builder produced
\* it from an allocation; every edge produced from a connection is solid,
\* whatever the name of the connection.
C22_DashedIffAllocation ==
  pc = "laid" =>
    \A k \in DOMAIN layout.edges :
      /\ Dashed(layout.edges[k]) <=> FromAllocation(graph.edges[k])
      /\ FromConnection(graph.edges[k]) => ~Dashed(layout.edges[k])

(***************************************************************************)
(* The structural validator (isDarTwinModel).  A JavaScript value is a     *)
(* record with its kind in t: a string carries its text in s, an array its *)
(* entries in items and an object its own properties in fields.  The       *)
(* guards read a property only after isObject, so no read can throw.       *)
(***************************************************************************)
JUndefined == [t |-> "undefined"]

JNull == [t |-> "null"]

JNumber == [t |-> "number"]

JString(s) == [t |-> "string", s |-> s]

JArray(entries) == [t |-> "array", items |-> entries]

JObject(fields) == [t |-> "object", fields |-> fields]

\* typeof value
TypeOf(value) == IF value.t \in {"null", "array", "object"} THEN "object" ELSE value.t

\* value[key] for a value that is not null or undefined: an array has none
\* of the properties that the guards read.
Get(value, key) ==
  IF value.t = "object" /\ key \in DOMAIN value.fields THEN value.fields[key] ELSE JUndefined

\* Array.isArray(value)
IsArray(value) == value.t = "array"

\* value.every(guard)
Every(value, guard(_)) == \A k \in DOMAIN value.items : guard(value.items[k])

\* typeof value === "string"
IsStringValue(value) == TypeOf(value) = "string"

\* typeof value === "undefined" || typeof value === "string"
IsOptionalString(value) == TypeOf(value) = "undefined" \/ TypeOf(value) = "string"

isObject(value) == TypeOf(value) = "object" /\ value # JNull

isStringArray(value) == IsArray(value) /\ Every(value, IsStringValue)

isDigitalTwin(value) ==
  isObject(value) /\ IsStringValue(Get(value, "name")) /\ isStringArray(Get(value, "ports"))

isOriginalTwin(value) ==
  isObject(value) /\ IsStringValue(Get(value, "name")) /\ isStringArray(Get(value, "ports"))

isConnection(value) ==
  /\ isObject(value)
  /\ IsStringValue(Get(value, "from"))
  /\ IsStringValue(Get(value, "to"))
  /\ IsOptionalString(Get(value, "name"))

isGoal(value) ==
  isObject(value) /\ IsStringValue(Get(value, "name")) /\ IsOptionalString(Get(value, "doc"))

isAllocation(value) ==
  isObject(value) /\ IsStringValue(Get(value, "goal")) /\ IsStringValue(Get(value, "target"))

isTwinSystem(value) ==
  /\ isObject(value)
  /\ IsStringValue(Get(value, "name"))
  /\ IsArray(Get(value, "digital_twins")) /\ Every(Get(value, "digital_twins"), isDigitalTwin)
  /\ IsArray(Get(value, "original_twins")) /\ Every(Get(value, "original_twins"), isOriginalTwin)
  /\ IsArray(Get(value, "connections")) /\ Every(Get(value, "connections"), isConnection)

\* typeof value === "undefined" || (Array.isArray(value) && value.every(guard))
IsOptionalArrayOf(value, guard(_)) ==
  TypeOf(value) = "undefined" \/ (IsArray(value) /\ Every(value, guard))

isPartialSlice(value) ==
  /\ isObject(value)
  /\ IsOptionalArrayOf(Get(value, "systems"), isTwinSystem)
  /\ IsOptionalArrayOf(Get(value, "goals"), isGoal)
  /\ IsOptionalArrayOf(Get(value, "allocations"), isAllocation)

\* typeof value === "undefined" || isPartialSlice(value)
IsOptionalSlice(value) == TypeOf(value) = "undefined" \/ isPartialSlice(value)

isDarTransGuard(value) ==
  /\ isObject(value)
  /\ IsOptionalSlice(Get(value, "core"))
  /\ IsOptionalSlice(Get(value, "before"))
  /\ IsOptionalSlice(Get(value, "after"))

isDarTwinModel(value) ==
  /\ isObject(value)
  /\ Get(value, "type") = JString("DarTwin")
  /\ IsStringValue(Get(value, "name"))
  /\ IsArray(Get(value, "systems")) /\ Every(Get(value, "systems"), isTwinSystem)
  /\ IsArray(Get(value, "goals")) /\ Every(Get(value, "goals"), isGoal)
  /\ IsArray(Get(value, "allocations")) /\ Every(Get(value, "allocations"), isAllocation)
  /\ (TypeOf(Get(value, "dartrans")) = "undefined" \/ isDarTransGuard(Get(value, "dartrans")))

(***************************************************************************)
(* SpecGuard: isDarTwinModel applied to a value.  decls holds the value:   *)
(* an object put together from a candidate, well-formed or not, for each   *)
(* property of a Model, or a value that is no object.                      *)
(***************************************************************************)
\* The property key with the value, or no property for undefined.
Property(key, value) == IF value = JUndefined THEN EmptyMap ELSE (key :> value)

GoodTwin == JObject([name |-> JString("t"), ports |-> JArray(<<JString("p")>>)])

GoodConnection == JObject([from |-> JString("t.p"), to |-> JString("o.q")])

GoodSystem ==
  JObject([name |-> JString("s"), digital_twins |-> JArray(<<GoodTwin>>),
           original_twins |-> JArray(<<GoodTwin>>), connections |-> JArray(<<GoodConnection>>)])

GoodGoal == JObject([name |-> JString("g"), doc |-> JString("d")])

GoodAllocation == JObject([goal |-> JString("g"), target |-> JString("s.t")])

GoodSlice == JObject([systems |-> JArray(<<GoodSystem>>), goals |-> JArray(<<GoodGoal>>)])

TypeCandidates == {JString("DarTwin"), JString("x"), JUndefined}

NameCandidates == {JString("a"), JNumber, JUndefined}

SystemsCandidates ==
  { JArray(<<>>), JArray(<<GoodSystem>>), JUndefined, JObject(EmptyMap),
    JArray(<<JObject([name |-> JString("s"), digital_twins |-> JArray(<<JArray(<<>>)>>),
                      original_twins |-> JArray(<<>>), connections |-> JArray(<<>>)])>>),
    JArray(<<JObject([name |-> JString("s"), digital_twins |-> JArray(<<>>),
                      original_twins |-> JArray(<<>>)])>>) }

GoalsCandidates ==
  { JArray(<<>>), JArray(<<GoodGoal, JObject([name |-> JString("h")])>>), JString("g"),
    JArray(<<JObject([name |-> JString("g"), doc |-> JNumber])>>) }

AllocationsCandidates ==
  { JArray(<<>>), JArray(<<GoodAllocation>>), JArray(<<JNull>>), JNull }

DarTransCandidates ==
  { JUndefined, JObject(EmptyMap), JObject([core |-> GoodSlice]),
    JObject([before |-> JObject(EmptyMap), after |-> GoodSlice]),
    JArray(<<>>), JNull, JString("x"),
    JObject([core |-> JArray(<<>>)]),
    JObject([before |-> JNull]),
    JObject([after |-> JObject([goals |-> JString("g")])]) }

GuardObjects ==
  { JObject(Property("type", type) @@ Property("name", name) @@ Property("systems", systems)
            @@ Property("goals", goals) @@ Property("allocations", allocations)
            @@ Property("dartrans", dartrans))
    : type \in TypeCandidates, name \in NameCandidates, systems \in SystemsCandidates,
      goals \in GoalsCandidates, allocations \in AllocationsCandidates,
      dartrans \in DarTransCandidates }

GuardValues == GuardObjects \cup {JNull, JUndefined, JNumber, JString("DarTwin"), JArray(<<>>)}

InitGuard ==
  /\ decls \in GuardValues
  /\ items = Unused
  /\ pc = "value"
  /\ text = Unused /\ layout = Unused /\ stateNodes = Unused /\ stateEdges = Unused /\ layoutSignature = Unused /\ model = Unused /\ graph = Unused /\ console = <<>>
  /\ src = Unused /\ openIdx = 0 /\ block = Unused /\ scanKind = Unused /\ lastIndex = 0

IsDarTwinModel ==
  /\ pc = "value"
  /\ items' = isDarTwinModel(decls)
  /\ pc' = "guarded"
  /\ UNCHANGED <<stateNodes, stateEdges, layoutSignature, decls, layout, src, openIdx, block, text, model, graph, console,
                 scanKind, lastIndex>>

NextGuard == IsDarTwinModel

SpecGuard == InitGuard /\ [][NextGuard]_vars

\* The well-formed shapes of the interfaces of the Model: an object is a
\* value that is neither an array nor null, a list is an array.
IsPlainObject(value) == value.t = "object"

IsListOf(value, shape(_)) == value.t = "array" /\ \A k \in DOMAIN value.items : shape(value.items[k])

Has(value, key) == key \in DOMAIN value.fields

OptionalIn(value, key, shape(_)) == Has(value, key) => shape(value.fields[key])

RequiredIn(value, key, shape(_)) == Has(value, key) /\ shape(value.fields[key])

StringList(value) == IsListOf(value, IsStringValue)

TwinShape(value) ==
  IsPlainObject(value) /\ RequiredIn(value, "name", IsStringValue)
    /\ RequiredIn(value, "ports", StringList)

ConnectionShape(value) ==
  IsPlainObject(value) /\ RequiredIn(value, "from", IsStringValue)
    /\ RequiredIn(value, "to", IsStringValue) /\ OptionalIn(value, "name", IsStringValue)

GoalShape(value) ==
  IsPlainObject(value) /\ RequiredIn(value, "name", IsStringValue)
    /\ OptionalIn(value, "doc", IsStringValue)

AllocationShape(value) ==
  IsPlainObject(value) /\ RequiredIn(value, "goal", IsStringValue)
    /\ RequiredIn(value, "target", IsStringValue)

TwinList(value) == IsListOf(value, TwinShape)

ConnectionList(value) == IsListOf(value, ConnectionShape)

TwinSystemShape(value) ==
  IsPlainObject(value) /\ RequiredIn(value, "name", IsStringValue)
    /\ RequiredIn(value, "digital_twins", TwinList)
    /\ RequiredIn(value, "original_twins", TwinList)
    /\ RequiredIn(value, "connections", ConnectionList)

TwinSystemList(value) == IsListOf(value, TwinSystemShape)

GoalList(value) == IsListOf(value, GoalShape)

AllocationList(value) == IsListOf(value, AllocationShape)

SliceShape(value) ==
  IsPlainObject(value) /\ OptionalIn(value, "systems", TwinSystemList)
    /\ OptionalIn(value, "goals", GoalList) /\ OptionalIn(value, "allocations", AllocationList)

DarTransShape(value) ==
  IsPlainObject(value) /\ OptionalIn(value, "core", SliceShape)
    /\ OptionalIn(value, "before", SliceShape) /\ OptionalIn(value, "after", SliceShape)

IsTypeTag(value) == value = JString("DarTwin")

DarTwinModelShape(value) ==
  IsPlainObject(value) /\ RequiredIn(value, "type", IsTypeTag)
    /\ RequiredIn(value, "name", IsStringValue)
    /\ RequiredIn(value, "systems", TwinSystemList)
    /\ RequiredIn(value, "goals", GoalList)
    /\ RequiredIn(value, "allocations", AllocationList)
    /\ OptionalIn(value, "dartrans", DarTransShape)

\* C23: isDarTwinModel returns true for exactly the values of the Model's
\* shape: false when a required field is missing, a field has a wrong type
\* or an array stands where the dartrans object or a slice object is
\* expected, and true otherwise.
C23_GuardAcceptsExactlyModels ==
  pc = "guarded" => (items <=> DarTwinModelShape(decls))

\* list.includes(node)
Includes(list, node) == \E k \in DOMAIN list : list[k] = node

\* The groups of layoutDigitalTwin that hold the port, for dtPorts the
\* ports of its digital twin.
PortGroups(dtPorts, port) ==
  {group \in {"sensor", "actuator", "unclassified"} :
     \/ group = "sensor" /\ Includes(sensorPortsOf(dtPorts), port)
     \/ group = "actuator" /\ Includes(actuatorPortsOf(dtPorts), port)
     \/ group = "unclassified" /\ Includes(remainingPortsOf(dtPorts), port)}

\* The number of assignments to positions[id].
PositionWrites(positions, id) == Cardinality({k \in DOMAIN positions : positions[k].id = id})

\* The port at k is the only node of g with its id.
DeclaredOnce(g, k) == \A j \in DOMAIN g.nodes : g.nodes[j].id = g.nodes[k].id => j = k

\* Every port of the digital twin at d is in exactly one group, and its
\* position is assigned once when it is the only node of its id.
PortsInOneGroup(g, d, dtPorts, positions) ==
  \A k \in PortsUnder(g, d) :
    /\ Cardinality(PortGroups(dtPorts, g.nodes[k])) = 1
    /\ DeclaredOnce(g, k) => PositionWrites(positions, g.nodes[k].id) = 1

\* C25: the groups sensor-like, actuator-like and unclassified of the
\* ports of a digital twin are pairwise disjoint and cover the ports; no
\* port is in two groups or has its position assigned twice.
C25_PortsInExactlyOneGroup ==
  pc = "laid" =>
    \A d \in NodesOfType(graph, "dt") :
      PortsInOneGroup(graph, d,
                      groupByParent(SelectSeq(graph.nodes, LAMBDA n : n.type = "port"),
                                    graph.nodes[d].id),
                      LayoutPositions(graph))

(***************************************************************************)
(* Claims about the targets of allocations (SpecBuild).                    *)
(***************************************************************************)
\* The target is written X.T: it has a first segment and a rest.
Qualified(target) == FirstSegment(target) # target

\* T of a target X.T.
AfterFirstSegment(target) == SliceFrom(target, Len(FirstSegment(target)) + 1)

\* A system of m named X declares a digital twin named T.
OwnsDigitalTwin(m, X, T) ==
  \E k \in DOMAIN m.systems :
    /\ m.systems[k].name = X
    /\ \E d \in DOMAIN m.systems[k].digital_twins : m.systems[k].digital_twins[d].name = T

\* A system of m declares a digital twin named T.
DigitalTwinNamed(m, T) ==
  \E k \in DOMAIN m.systems :
    \E d \in DOMAIN m.systems[k].digital_twins : m.systems[k].digital_twins[d].name = T

\* The target names an original twin of m, bare or qualified by its
\* system, and no digital twin of m has the name.
NamesOriginalTwin(m, target) ==
  /\ ~DigitalTwinNamed(m, LastSegment(target))
  /\ \E k \in DOMAIN m.systems :
       \E o \in DOMAIN m.systems[k].original_twins :
         \/ target = m.systems[k].original_twins[o].name
         \/ target = m.systems[k].name \o Dot \o m.systems[k].original_twins[o].name

\* The graph has the edge of the allocation.
HasAllocationEdge(g, a) ==
  \E k \in DOMAIN g.edges :
    g.edges[k].id = <<"a","l","l","o","c","a","t","i","o","n">> \o Sep \o toSegment(a.target)
                      \o Sep \o toSegment(a.goal)

\* The allocation has an edge only if its target X.T names a digital twin
\* T of the system X, and none if its target names an original twin.
AllocationEdgeOnlyForOwnedTwin(m, g, a) ==
  /\ (Qualified(a.target) /\ HasAllocationEdge(g, a))
       => OwnsDigitalTwin(m, FirstSegment(a.target), AfterFirstSegment(a.target))
  /\ NamesOriginalTwin(m, a.target) => ~HasAllocationEdge(g, a)

\* C27: an allocation with a target X.T has an edge only if a system named
\* X declares a digital twin named T; an allocation whose target names an
\* original twin has no edge.
C27_AllocationEdgeOnlyForOwnedTwin ==
  pc = "built" =>
    \A i \in DOMAIN model.allocations :
      AllocationEdgeOnlyForOwnedTwin(model, graph, model.allocations[i])

(***************************************************************************)
(* SpecEditor: the editor of InnerApp.  The text is edited, the component  *)
(* renders again (model, graph and layout are memoised on the text) and    *)
(* the three effects of useLayout run in the order of their declaration.   *)
(* stateNodes and stateEdges are the states of useNodesState and           *)
(* useEdgesState; the updates that the effects of one render queue are     *)
(* applied in the order of their calls.  pc is "render" after setText,     *)
(* the name of the next effect while effects are pending, "idle" after.    *)
(***************************************************************************)
\* The sample document, line by line.
sample ==
  <<"#dartwin StrawberryCultivationTrans {",
    "  #twinsystem Strawberry {",
    "    connect Strawberry.Cultivation.MultiSensor        to StrawberryDT.multisensor_input;",
    "    connect StrawberryDT.actuator_output_irrigation   to Strawberry.Cultivation.IrrigationActuator;",
    "    connect StrawberryDT.actuator_output_human        to Strawberry.Cultivation.HumanActuator;",
    "    connect StrawberryDT.actuator_output_ventilation  to Strawberry.Cultivation.VentilationActuator;",
    "",
    "    #digitaltwin StrawberryDT {",
    "      port multisensor_input;",
    "      port actuator_output_irrigation;",
    "      port actuator_output_human;",
    "      port actuator_output_ventilation;",
    "    }",
    "",
    "    part Cultivation {",
    "      port MultiSensor;",
    "      port IrrigationActuator;",
    "      port HumanActuator;",
    "      port VentilationActuator;",
    "    }",
    "  }",
    "",
    "  #goal increase_yield { doc /* yield y higher y than before */ }",
    "  #goal apply_decreased_water { doc /* water consumption w lower w than before */ }",
    "",
    "  allocate increase_yield to Strawberry.StrawberryDT;",
    "  allocate apply_decreased_water to Strawberry.StrawberryDT;",
    "}">>

GoalDocX ==
  <<"#","d","a","r","t","w","i","n"," ","a","{","#","g","o","a","l"," ","g","{","d","o","c"," ","/","*","x","*","/","}","}">>

GoalDocY ==
  <<"#","d","a","r","t","w","i","n"," ","a","{","#","g","o","a","l"," ","g","{","d","o","c"," ","/","*","y","*","/","}","}">>

GoalNoDoc ==
  <<"#","d","a","r","t","w","i","n"," ","a","{","#","g","o","a","l"," ","g"," ","}">>

TwoGoals ==
  <<"#","d","a","r","t","w","i","n"," ","a","{","#","g","o","a","l"," ","g","{","d","o","c"," ","/","*","x","*","/","}","#","g","o","a","l"," ","h"," ","}">>

OneSystem ==
  <<"#","d","a","r","t","w","i","n"," ","a","{","#","t","w","i","n","s","y","s","t","e","m"," ","s","{","#","d","i","g","i","t","a","l","t","w","i","n"," ","t","{","p","o","r","t"," ","p",";","}","}","}">>

OneSystemConnected ==
  <<"#","d","a","r","t","w","i","n"," ","a","{","#","t","w","i","n","s","y","s","t","e","m"," ","s","{","#","d","i","g","i","t","a","l","t","w","i","n"," ","t","{","p","o","r","t"," ","p",";","}","c","o","n","n","e","c","t"," ","t",".","p"," ","t","o"," ","t",".","p",";","}","}">>

OtherRoot ==
  <<"#","d","a","r","t","w","i","n"," ","b","{","#","g","o","a","l"," ","g","{","d","o","c"," ","/","*","x","*","/","}","}">>

\* The documents that an edit stores: the empty text that
\* setText(value || "") stores for a cleared editor, and short documents
\* that differ by the doc of a goal, by a goal, by a connection, by the
\* root name or by all declarations.
EditorTexts ==
  {<<>>, GoalDocX, GoalDocY, GoalNoDoc, TwoGoals, OneSystem, OneSystemConnected, OtherRoot}

\* parseDarTwin(text); the Model of the sample is SampleModel.
ModelOfText(t) == IF t = sample THEN SampleModel ELSE parseDarTwin(t)

\* ids.join("|")
JoinBar(ids) ==
  IF ids = <<>> THEN <<>>
  ELSE Concat(<<Head(ids)>> \o [k \in 1..(Len(ids) - 1) |-> <<"|">> \o ids[k + 1]])

\* initialNodes.map((node) => node.id).join("|")
LayoutSignatureOf(initialNodes) == JoinBar([k \in DOMAIN initialNodes |-> initialNodes[k].id])

\* The first effect after a render whose signature is sig, the signature
\* of the render before it being before: the effect of the signature runs
\* only when the signature has changed.
FirstEffect(sig, before) == IF sig # before THEN "signature effect" ELSE "nodes effect"

\* The state and the layout of the first render: every effect is pending.
InitEditor ==
  /\ text = sample
  /\ model = ModelOfText(text)
  /\ graph = darTwinToReactFlow(model)
  /\ layout = computeLayout(graph)
  /\ layoutSignature = LayoutSignatureOf(layout.nodes)
  /\ stateNodes = layout.nodes
  /\ stateEdges = layout.edges
  /\ pc = "signature effect"
  /\ decls = "model parser"
  /\ console = <<>> /\ items = <<>>
  /\ src = Unused /\ openIdx = 0 /\ block = Unused
  /\ scanKind = Unused /\ lastIndex = 0

\* onChange of the editor: setText(value || "") with a new value.
SetText(value) ==
  /\ pc = "idle"
  /\ value # text
  /\ text' = value
  /\ pc' = "render"
  /\ UNCHANGED <<model, graph, layout, layoutSignature, stateNodes, stateEdges, decls, console, items,
                 src, openIdx, block, scanKind, lastIndex>>

\* The render of InnerApp after setText: the memoised model, graph and
\* layout are computed again, each from the one before it.
Render ==
  /\ pc = "render"
  /\ model' = ModelOfText(text)
  /\ graph' = darTwinToReactFlow(model')
  /\ layout' = computeLayout(graph')
  /\ layoutSignature' = LayoutSignatureOf(layout'.nodes)
  /\ pc' = FirstEffect(layoutSignature', layoutSignature)
  /\ UNCHANGED <<text, stateNodes, stateEdges, decls, console, items, src, openIdx, block, scanKind,
                 lastIndex>>

\* useEffect(() => { setNodes([]); }, [layoutSignature, setNodes])
SignatureEffect ==
  /\ pc = "signature effect"
  /\ stateNodes' = <<>>
  /\ pc' = "nodes effect"
  /\ UNCHANGED <<text, model, graph, layout, layoutSignature, stateEdges, decls, console, items, src,
                 openIdx, block, scanKind, lastIndex>>

\* useEffect(() => { setNodes((prev) => (prev.length === 0 ? initialNodes : prev)); }, ...)
NodesEffect ==
  /\ pc = "nodes effect"
  /\ stateNodes' = IF Len(stateNodes) = 0 THEN layout.nodes ELSE stateNodes
  /\ pc' = "edges effect"
  /\ UNCHANGED <<text, model, graph, layout, layoutSignature, stateEdges, decls, console, items, src,
                 openIdx, block, scanKind, lastIndex>>

\* useEffect(() => { setEdges(initialEdges); }, [initialEdges, setEdges])
EdgesEffect ==
  /\ pc = "edges effect"
  /\ stateEdges' = layout.edges
  /\ pc' = "idle"
  /\ UNCHANGED <<text, model, graph, layout, layoutSignature, stateNodes, decls, console, items, src,
                 openIdx, block, scanKind, lastIndex>>

NextEditor ==
  \/ \E value \in EditorTexts : SetText(value)
  \/ Render
  \/ SignatureEffect
  \/ NodesEffect
  \/ EdgesEffect

SpecEditor == InitEditor /\ [][NextEditor]_vars

(***************************************************************************)
(* Claims about the editor (SpecEditor).                                   *)
(***************************************************************************)
\* C30: once the effects have run, after any sequence of edits, the
\* rendered nodes are the nodes of the layout of the latest text and the
\* rendered edges are its edges (layout is, after Render, the layout of
\* text, and text changes only when no effect is pending).
C30_RenderedNodesOfLatestText ==
  pc = "idle" => stateNodes = layout.nodes /\ stateEdges = layout.edges

====
